---- MODULE Spec2Model ----
(***************************************************************************)
(* A model of gonf, the configuration loader of cdelorme/go-multiconf.     *)
(* The controller modelled is the latest variant (type Config, with error  *)
(* returns); Go strings are sequences of one-character strings, and JSON / *)
(* interface{} values are tagged records, so that a string, a boolean, a   *)
(* number, null and a nested map are always told apart.                    *)
(***************************************************************************)
EXTENDS Integers, Sequences, FiniteSets, TLC

VARIABLES
    settings,        \* Config.settings: the registry, in registration order
    description,     \* Config.description
    configFile,      \* Config.configFile ("" is the empty sequence)
    configModified,  \* Config.configModified (0 is the zero time)
    target,          \* the value behind Config.target, NoTarget when nil
    args,            \* os.Args
    environ,         \* the process environment: variable name -> value
    file,            \* the config file on disk: [exists, mtime, readable, valid, json]
    proc,            \* "running", "exited" (os.Exit(0) by help) or "panicked"
    last,            \* the last public call and what it returned
    call,            \* the input and output of a helper applied on its own
    mu,              \* Config.mu: [w, r], the writer and the set of readers
    targetMu,        \* the target's own mutex: the goroutine that holds it
    pc               \* goroutine -> its position in the call it is making

vars == <<settings, description, configFile, configModified, target,
          args, environ, file, proc, last, call, mu, targetMu, pc>>

syncVars == <<mu, targetMu, pc>>

ctlVars == <<settings, description, configFile, configModified, target>>
worldVars == <<args, environ, file>>

(***************************************************************************)
(* Go strings                                                              *)
(***************************************************************************)
HasPrefix(s, p) == Len(s) >= Len(p) /\ SubSeq(s, 1, Len(p)) = p

HasSuffix(s, p) == Len(s) >= Len(p) /\ SubSeq(s, Len(s) - Len(p) + 1, Len(s)) = p

Contains(s, sub) ==
    \E i \in 1..(Len(s) - Len(sub) + 1) : SubSeq(s, i, i + Len(sub) - 1) = sub

TrimPrefix(s, p) == IF HasPrefix(s, p) THEN SubSeq(s, Len(p) + 1, Len(s)) ELSE s

\* the index of the first occurrence of character c in s, 0 when there is none
IndexOf(s, c) ==
    IF \E i \in 1..Len(s) : s[i] = c
    THEN CHOOSE i \in 1..Len(s) : s[i] = c /\ \A j \in 1..(i - 1) : s[j] # c
    ELSE 0

\* strings.Split(s, c): every piece between separators, empty pieces included
RECURSIVE Split(_, _)
Split(s, c) ==
    LET i == IndexOf(s, c) IN
    IF i = 0 THEN <<s>>
    ELSE <<SubSeq(s, 1, i - 1)>> \o Split(SubSeq(s, i + 1, Len(s)), c)

\* strings.SplitN(s, c, 2): cut at the first separator only
SplitN2(s, c) ==
    LET i == IndexOf(s, c) IN
    IF i = 0 THEN <<s>>
    ELSE <<SubSeq(s, 1, i - 1), SubSeq(s, i + 1, Len(s))>>

(***************************************************************************)
(* interface{} values held by map[string]interface{}                       *)
(***************************************************************************)
Str(s) == [kind |-> "string", s |-> s]
Bool(b) == [kind |-> "bool", b |-> b]
Num(n) == [kind |-> "number", n |-> n]
Map(m) == [kind |-> "map", m |-> m]
Null == [kind |-> "null"]
Arr(a) == [kind |-> "array", a |-> a]

EmptyMap == <<>>

\* m[k] = v on a Go map
Put(m, k, v) == [y \in DOMAIN m \cup {k} |-> IF y = k THEN v ELSE m[y]]

(***************************************************************************)
(* Config.merge                                                            *)
(***************************************************************************)
\* the last step of merge's inner loop, for a key the accumulator m may hold
RECURSIVE merge(_)
\* mergeKey that never recurses
mergeKeyFlat(m, k, v) == Put(m, k, v)

mergeKey(m, k, v) ==
    IF k \in DOMAIN m /\ m[k].kind = "map" /\ v.kind = "map"
    THEN Put(m, k, Map(merge(<<m[k].m, v.m>>)))
    ELSE Put(m, k, v)

\* `for k, v := range t`: the keys of one input, taken one at a time
RECURSIVE mergeRange(_, _, _)
mergeRange(m, t, todo) ==
    IF todo = {} THEN m
    ELSE LET k == CHOOSE x \in todo : TRUE IN
         mergeRange(mergeKey(m, k, t[k]), t, todo \ {k})

\* `for _, t := range maps`
RECURSIVE mergeMaps(_, _)
mergeMaps(m, maps) ==
    IF maps = <<>> THEN m
    ELSE mergeMaps(mergeRange(m, Head(maps), DOMAIN Head(maps)), Tail(maps))

merge(maps) == mergeMaps(EmptyMap, maps)

(***************************************************************************)
(* Config.set                                                              *)
(***************************************************************************)
\* The result is [panic, m]: the type assertion cursor[k].(map[string]interface{})
\* panics when cursor[k] holds anything but a map.
RECURSIVE setKeys(_, _, _)
setKeys(cursor, keys, value) ==
    LET k == Head(keys) IN
    IF Len(keys) = 1 THEN [panic |-> FALSE, m |-> Put(cursor, k, value)]
    ELSE LET c1 == IF k \in DOMAIN cursor THEN cursor ELSE Put(cursor, k, Map(EmptyMap)) IN
         IF c1[k].kind # "map" THEN [panic |-> TRUE, m |-> c1]
         ELSE LET r == setKeys(c1[k].m, Tail(keys), value) IN
              [panic |-> r.panic, m |-> Put(c1, k, Map(r.m))]

set(cursor, key, value) == setKeys(cursor, Split(key, "."), value)

(***************************************************************************)
(* setting.Match                                                           *)
(***************************************************************************)
\* <<matched, greedy>> for the first option of s that spells `exists`,
\* with or without the ":" suffix that marks it greedy
RECURSIVE matchFrom(_, _, _)
matchFrom(options, k, exists) ==
    IF k > Len(options) THEN <<FALSE, FALSE>>
    ELSE IF options[k] = exists THEN <<TRUE, FALSE>>
    ELSE IF options[k] = exists \o <<":">> THEN <<TRUE, TRUE>>
    ELSE matchFrom(options, k + 1, exists)

Match(s, exists) == matchFrom(s.Options, 1, exists)

(***************************************************************************)
(* Config.parseEnvs                                                        *)
(***************************************************************************)
\* os.Getenv: the empty string for a variable that is not set
Getenv(e, name) == IF name \in DOMAIN e THEN e[name] ELSE <<>>

\* A parser's progress is [i, m, st]: the index into os.Args (1-based), the
\* map built so far, and "run", "panic" (set panicked) or "exit" (help exited).
setInto(ps, i, name, value) ==
    LET r == set(ps.m, name, value) IN
    [i |-> i, m |-> r.m, st |-> IF r.panic THEN "panic" ELSE ps.st]

RECURSIVE envLoop(_, _, _, _)
envLoop(regs, e, k, ps) ==
    IF k > Len(regs) \/ ps.st # "run" THEN ps
    ELSE LET s == regs[k] IN
         IF s.Env = <<>> THEN envLoop(regs, e, k + 1, ps)
         ELSE IF Len(Getenv(e, s.Env)) > 0
              THEN envLoop(regs, e, k + 1, setInto(ps, ps.i, s.Name, Str(Getenv(e, s.Env))))
              ELSE envLoop(regs, e, k + 1, ps)

parseEnvs(regs, e) == envLoop(regs, e, 1, [i |-> 0, m |-> EmptyMap, st |-> "run"])

(***************************************************************************)
(* Config.parseLong, Config.parseShort, Config.parseOptions                *)
(***************************************************************************)
Dash == <<"-">>
DashDash == <<"-", "-">>

\* (takesNextAny is the guard without its test for "--")
\* the guard shared by the first case of both switches: the next token exists,
\* is not "--", and does not look like an option unless this one is greedy
takesNextAny(argv, i, greedy) ==
    /\ i + 1 <= Len(argv)
    /\ (~HasPrefix(argv[i + 1], Dash) \/ greedy)

takesNext(argv, i, greedy) ==
    /\ i + 1 <= Len(argv)
    /\ argv[i + 1] # DashDash
    /\ (~HasPrefix(argv[i + 1], Dash) \/ greedy)

\* `for _, s := range c.settings` of parseLong, from setting k on
RECURSIVE longLoop(_, _, _, _, _)
longLoop(regs, argv, parts, k, ps) ==
    IF k > Len(regs) \/ ps.st # "run" THEN ps
    ELSE LET s == regs[k]
             y == Match(s, parts[1])
         IN IF ~y[1] THEN longLoop(regs, argv, parts, k + 1, ps)
            ELSE IF Len(parts) = 1 /\ takesNext(argv, ps.i, y[2])
                 THEN longLoop(regs, argv, parts, k + 1,
                               setInto(ps, ps.i + 1, s.Name, Str(argv[ps.i + 1])))
            ELSE IF Len(parts) = 2 /\ parts[2] # <<>>
                 THEN longLoop(regs, argv, parts, k + 1,
                               setInto(ps, ps.i, s.Name, Str(parts[2])))
            ELSE longLoop(regs, argv, parts, k + 1,
                          setInto(ps, ps.i, s.Name, Bool(TRUE)))

parseLong(regs, argv, ps) == longLoop(regs, argv, SplitN2(argv[ps.i], "="), 1, ps)

\* the loops of parseShort with no return after a greedy option takes the
\* rest of the cluster
RECURSIVE shortLoopOn(_, _, _, _, _, _)
shortLoopOn(regs, argv, a, ci, k, ps) ==
    IF ci > Len(a) \/ ps.st # "run" THEN ps
    ELSE IF k > Len(regs) THEN shortLoopOn(regs, argv, a, ci + 1, 1, ps)
    ELSE LET s == regs[k]
             y == Match(s, Dash \o <<a[ci]>>)
         IN IF ~y[1] THEN shortLoopOn(regs, argv, a, ci, k + 1, ps)
            ELSE IF ci >= Len(a) /\ takesNext(argv, ps.i, y[2])
                 THEN shortLoopOn(regs, argv, a, ci, k + 1,
                                  setInto(ps, ps.i + 1, s.Name, Str(argv[ps.i + 1])))
            ELSE IF ci < Len(a) /\ y[2]
                 THEN shortLoopOn(regs, argv, a, ci, k + 1,
                                  setInto(ps, ps.i, s.Name, Str(SubSeq(a, ci + 1, Len(a)))))
            ELSE shortLoopOn(regs, argv, a, ci, k + 1,
                             setInto(ps, ps.i, s.Name, Bool(TRUE)))

\* parseShort's two loops: character ci (1-based) of the cluster a, setting k.
\* The greedy case not at the end of the cluster returns from parseShort.
RECURSIVE shortLoop(_, _, _, _, _, _)
shortLoop(regs, argv, a, ci, k, ps) ==
    IF ci > Len(a) \/ ps.st # "run" THEN ps
    ELSE IF k > Len(regs) THEN shortLoop(regs, argv, a, ci + 1, 1, ps)
    ELSE LET s == regs[k]
             y == Match(s, Dash \o <<a[ci]>>)
         IN IF ~y[1] THEN shortLoop(regs, argv, a, ci, k + 1, ps)
            ELSE IF ci >= Len(a) /\ takesNext(argv, ps.i, y[2])
                 THEN shortLoop(regs, argv, a, ci, k + 1,
                                setInto(ps, ps.i + 1, s.Name, Str(argv[ps.i + 1])))
            ELSE IF ci < Len(a) /\ y[2]
                 THEN setInto(ps, ps.i, s.Name, Str(SubSeq(a, ci + 1, Len(a))))
            ELSE shortLoop(regs, argv, a, ci, k + 1,
                           setInto(ps, ps.i, s.Name, Bool(TRUE)))

parseShort(regs, argv, ps) == shortLoop(regs, argv, TrimPrefix(argv[ps.i], Dash), 1, 1, ps)

HelpTokens == {<<"h", "e", "l", "p">>, <<"-", "h">>, <<"-", "-", "h", "e", "l", "p">>}

\* Config.help(true) exits the process when a description is set
helpExits(desc) == desc # <<>>

\* one turn of parseOptions' loop on token i, then i++
RECURSIVE optionsLoop(_, _, _, _)
optionsLoop(regs, desc, argv, ps) ==
    IF ps.i > Len(argv) \/ ps.st # "run" THEN ps
    ELSE LET arg == argv[ps.i]
             step(q) == optionsLoop(regs, desc, argv, [q EXCEPT !.i = q.i + 1])
         IN IF arg = DashDash THEN ps
            ELSE IF arg \in HelpTokens /\ helpExits(desc) THEN [ps EXCEPT !.st = "exit"]
            ELSE IF ~(arg \in HelpTokens) /\ (Len(arg) = 1 \/ ~HasPrefix(arg, Dash)) THEN step(ps)
            ELSE IF HasPrefix(arg, DashDash) THEN step(parseLong(regs, argv, ps))
            ELSE step(parseShort(regs, argv, ps))

parseOptions(regs, desc, argv) ==
    optionsLoop(regs, desc, argv, [i |-> 1, m |-> EmptyMap, st |-> "run"])

(***************************************************************************)
(* The configuration target: a reduced mockConfig                          *)
(***************************************************************************)
\* A struct type is a sequence of fields [Name, Tag, Kind, Anonymous, Fields];
\* Tag is the name part of the json tag (empty when the field has none), Kind
\* is "string", "bool", "int", "slice" or "struct", Fields the fields of a
\* struct. A slice is nil (Null) or holds its elements (Arr).
Field(name, tag, kind, anon, fields) ==
    [Name |-> name, Tag |-> tag, Kind |-> kind, Anonymous |-> anon, Fields |-> fields]

\* type Deeper struct { T string }   (promoted through the anonymous field)
DeeperType == <<Field(<<"T">>, <<>>, "string", FALSE, <<>>)>>

\* type Composite struct { D int; E bool `json:"e"` }
CompositeType ==
    << Field(<<"D">>, <<>>, "int", FALSE, <<>>),
       Field(<<"E">>, <<"e">>, "bool", FALSE, <<>>) >>

\* type mockConfig struct {
\*     Deeper
\*     X Composite `json:"x"`
\*     N string    `json:"n"`
\*     K int
\*     P string    `json:"-"`
\* }
TargetType ==
    << Field(<<"Deeper">>, <<>>, "struct", TRUE, DeeperType),
       Field(<<"X">>, <<"x">>, "struct", FALSE, CompositeType),
       Field(<<"N">>, <<"n">>, "string", FALSE, <<>>),
       Field(<<"K">>, <<>>, "int", FALSE, <<>>),
       Field(<<"P">>, <<"-">>, "string", FALSE, <<>>) >>

FieldNames(type) == {type[i].Name : i \in 1..Len(type)}

FieldOf(type, name) == type[CHOOSE i \in 1..Len(type) : type[i].Name = name]

\* the zero value of a struct type: field Name -> value
RECURSIVE ZeroOf(_)
ZeroOf(type) ==
    [n \in FieldNames(type) |->
        LET f == FieldOf(type, n) IN
        CASE f.Kind = "string" -> Str(<<>>)
          [] f.Kind = "bool" -> Bool(FALSE)
          [] f.Kind = "int" -> Num(0)
          [] f.Kind = "slice" -> Null
          [] OTHER -> Map(ZeroOf(f.Fields))]

NoTarget == [kind |-> "nil"]

(***************************************************************************)
(* strconv.ParseBool and strconv.ParseFloat                                *)
(***************************************************************************)
TrueStrings ==
    { <<"1">>, <<"t">>, <<"T">>, <<"T", "R", "U", "E">>,
      <<"t", "r", "u", "e">>, <<"T", "r", "u", "e">> }

FalseStrings ==
    { <<"0">>, <<"f">>, <<"F">>, <<"F", "A", "L", "S", "E">>,
      <<"f", "a", "l", "s", "e">>, <<"F", "a", "l", "s", "e">> }

ParseBool(s) ==
    IF s \in TrueStrings THEN [ok |-> TRUE, v |-> Bool(TRUE)]
    ELSE IF s \in FalseStrings THEN [ok |-> TRUE, v |-> Bool(FALSE)]
    ELSE [ok |-> FALSE, v |-> Str(s)]

Digits == <<"0", "1", "2", "3", "4", "5", "6", "7", "8", "9">>

IsDigit(c) == \E d \in 1..Len(Digits) : Digits[d] = c

DigitVal(c) == (CHOOSE d \in 1..Len(Digits) : Digits[d] = c) - 1

RECURSIVE DecVal(_)
DecVal(s) == IF s = <<>> THEN 0 ELSE DecVal(SubSeq(s, 1, Len(s) - 1)) * 10 + DigitVal(s[Len(s)])

\* Decimal integers with an optional sign. The strings of this model hold no
\* ".", "e", "x", "_", "inf" or "nan" where a number is read, so every other
\* string is one ParseFloat rejects as well.
ParseFloat(s) ==
    LET body == IF s # <<>> /\ s[1] \in {"-", "+"} THEN Tail(s) ELSE s IN
    IF body # <<>> /\ \A i \in 1..Len(body) : IsDigit(body[i])
    THEN [ok |-> TRUE,
          v |-> Num(IF s[1] = "-" THEN 0 - DecVal(body) ELSE DecVal(body))]
    ELSE [ok |-> FALSE, v |-> Str(s)]

(***************************************************************************)
(* Config.isNumeric, Config.convert, Config.cast                           *)
(***************************************************************************)
isNumeric(t) == t \in {"int", "float"}

\* Both return [panic, m]: reflect.TypeOf(nil).Kind() in convert dereferences
\* a nil Type, which panics.
RECURSIVE cast(_, _, _)
\* convert storing what ParseBool and ParseFloat return with their error
convertLossy(d, v) ==
    IF v.kind = "null" THEN [panic |-> TRUE, v |-> v]
    ELSE IF v.kind = "string" /\ d.Kind = "bool"
         THEN [panic |-> FALSE,
               v |-> IF ParseBool(v.s).ok THEN ParseBool(v.s).v ELSE Bool(FALSE)]
    ELSE IF v.kind = "string" /\ isNumeric(d.Kind)
         THEN [panic |-> FALSE,
               v |-> IF ParseFloat(v.s).ok THEN ParseFloat(v.s).v ELSE Num(0)]
    ELSE IF v.kind = "map" /\ d.Kind = "struct"
         THEN LET r == cast(d.Fields, v.m, {}) IN [panic |-> r.panic, v |-> Map(r.m)]
    ELSE [panic |-> FALSE, v |-> v]

convert(d, v) ==
    IF v.kind = "null" THEN [panic |-> TRUE, v |-> v]
    ELSE IF v.kind = "string" /\ d.Kind = "bool"
         THEN [panic |-> FALSE, v |-> ParseBool(v.s).v]
    ELSE IF v.kind = "string" /\ isNumeric(d.Kind)
         THEN [panic |-> FALSE, v |-> ParseFloat(v.s).v]
    ELSE IF v.kind = "map" /\ d.Kind = "struct"
         THEN LET r == cast(d.Fields, v.m, {}) IN [panic |-> r.panic, v |-> Map(r.m)]
    ELSE [panic |-> FALSE, v |-> v]

\* One of the two field loops of cast for key k, from field i on: `byTag`
\* chooses the loop over json tags, else the loop over field names. The value
\* converted is always v, the one the range loop read. cs is [panic, m, discard].
RECURSIVE castFields(_, _, _, _, _, _)
castFields(type, k, v, byTag, i, cs) ==
    IF i > Len(type) \/ cs.panic THEN cs
    ELSE LET f == type[i]
             skip == IF byTag THEN f.Tag = <<"-">> \/ f.Tag # k ELSE k # f.Name
         IN IF skip THEN castFields(type, k, v, byTag, i + 1, cs)
            ELSE LET r == convert(f, v) IN
                 castFields(type, k, v, byTag, i + 1,
                            [panic |-> r.panic,
                             m |-> Put(cs.m, k, r.v),
                             discard |-> cs.discard \cup {k}])

\* the body of `for k, v := range m` for one key
castKey(type, k, cs) ==
    IF k \in cs.discard THEN cs
    ELSE LET c1 == castFields(type, k, cs.m[k], TRUE, 1, cs) IN
         IF c1.panic \/ k \in c1.discard THEN c1
         ELSE castFields(type, k, cs.m[k], FALSE, 1, c1)

RECURSIVE castRange(_, _, _)
castRange(type, todo, cs) ==
    IF todo = {} \/ cs.panic THEN cs
    ELSE LET k == CHOOSE x \in todo : TRUE IN
         castRange(type, todo \ {k}, castKey(type, k, cs))

\* castEmbedded handing the embedded struct every key, discarded or not
RECURSIVE castEmbeddedAll(_, _, _)
castEmbeddedAll(type, i, cs) ==
    IF i > Len(type) \/ cs.panic THEN cs
    ELSE LET f == type[i] IN
         IF f.Tag # <<>> \/ f.Kind # "struct" \/ ~f.Anonymous
         THEN castEmbeddedAll(type, i + 1, cs)
         ELSE LET r == cast(f.Fields, cs.m, {}) IN
              castEmbeddedAll(type, i + 1,
                              [r EXCEPT !.discard = @ \cup cs.discard])

\* the last loop of cast: untagged anonymous struct fields, while keys are left
RECURSIVE castEmbedded(_, _, _)
castEmbedded(type, i, cs) ==
    IF i > Len(type) \/ cs.panic THEN cs
    ELSE LET f == type[i] IN
         IF f.Tag # <<>> \/ f.Kind # "struct" \/ ~f.Anonymous
            \/ Cardinality(DOMAIN cs.m) <= Cardinality(cs.discard)
         THEN castEmbedded(type, i + 1, cs)
         ELSE LET r == cast(f.Fields, cs.m, cs.discard) IN
              castEmbedded(type, i + 1, r)

cast(type, m, discard) ==
    castEmbedded(type, 1,
        castRange(type, DOMAIN m, [panic |-> FALSE, m |-> m, discard |-> discard]))

(***************************************************************************)
(* encoding/json on the target: json.Unmarshal and json.Marshal            *)
(***************************************************************************)
jsonName(f) == IF f.Tag # <<>> THEN f.Tag ELSE f.Name

isEmbedded(f) == f.Anonymous /\ f.Kind = "struct" /\ f.Tag = <<>>

\* The fields encoding/json sees in a struct type, each [path, name, f]: the
\* type's own fields, then the fields promoted through untagged anonymous
\* structs unless an own field has the name. A field tagged "-" is none. (No
\* two promoted fields of this model's types share a name, and no two keys of
\* its inputs differ in case only, so neither json's tie rule nor its
\* case-insensitive fallback is ever needed.)
RECURSIVE jsonFields(_)
jsonFields(type) ==
    LET own == {[path |-> <<type[i].Name>>, name |-> jsonName(type[i]), f |-> type[i]] :
                    i \in {j \in 1..Len(type) : type[j].Tag # <<"-">> /\ ~isEmbedded(type[j])}}
        promoted == UNION {
            {[path |-> <<type[i].Name>> \o e.path, name |-> e.name, f |-> e.f] :
                 e \in jsonFields(type[i].Fields)} :
            i \in {j \in 1..Len(type) : isEmbedded(type[j])}}
    IN own \cup {e \in promoted : \A o \in own : o.name # e.name}

\* the value of struct value t at a path of field names, and t with it replaced
RECURSIVE GetAt(_, _)
GetAt(t, path) ==
    IF Len(path) = 1 THEN t[path[1]] ELSE GetAt(t[path[1]].m, Tail(path))

RECURSIVE SetAt(_, _, _)
SetAt(t, path, v) ==
    IF Len(path) = 1 THEN [t EXCEPT ![path[1]] = v]
    ELSE [t EXCEPT ![path[1]] = Map(SetAt(t[path[1]].m, Tail(path), v))]

\* json.Unmarshal of object m onto struct value t: [t, err]. A value of the
\* wrong JSON type leaves its field alone and is reported once decoding is
\* done; null leaves the field alone without error; a key that names no field
\* is skipped.
RECURSIVE unmarshalKeys(_, _, _, _)
decode(f, cur, v) ==
    IF v.kind = "null" THEN [v |-> cur, err |-> FALSE]
    ELSE IF f.Kind = "struct"
         THEN IF v.kind = "map"
              THEN LET r == unmarshalKeys(f.Fields, cur.m, v.m, DOMAIN v.m) IN
                   [v |-> Map(r.t), err |-> r.err]
              ELSE [v |-> cur, err |-> TRUE]
    ELSE IF (f.Kind = "string" /\ v.kind = "string")
            \/ (f.Kind = "bool" /\ v.kind = "bool")
            \/ (isNumeric(f.Kind) /\ v.kind = "number")
            \/ (f.Kind = "slice" /\ v.kind = "array")
         THEN [v |-> v, err |-> FALSE]
    ELSE [v |-> cur, err |-> TRUE]

unmarshalKeys(type, t, m, todo) ==
    IF todo = {} THEN [t |-> t, err |-> FALSE]
    ELSE LET k == CHOOSE x \in todo : TRUE
             hits == {e \in jsonFields(type) : e.name = k}
             rest(t1, err1) ==
                 LET r == unmarshalKeys(type, t1, m, todo \ {k}) IN
                 [t |-> r.t, err |-> err1 \/ r.err]
         IN IF hits = {} THEN rest(t, FALSE)
            ELSE LET e == CHOOSE x \in hits : TRUE
                     d == decode(e.f, GetAt(t, e.path), m[k])
                 IN rest(SetAt(t, e.path, d.v), d.err)

unmarshal(type, t, m) == unmarshalKeys(type, t, m, DOMAIN m)

\* json.Marshal / Encoder.Encode of struct value t: the JSON object written
RECURSIVE marshal(_, _)
marshal(type, t) ==
    LET fs == jsonFields(type) IN
    [k \in {e.name : e \in fs} |->
        LET e == CHOOSE x \in fs : x.name = k
            v == GetAt(t, e.path)
        IN IF e.f.Kind = "struct" THEN Map(marshal(e.f.Fields, v.m)) ELSE v]

(***************************************************************************)
(* Config.comment: the regular expression, alternative by alternative      *)
(***************************************************************************)
\* Each alternative, tried at index i of d, gives the index after its match,
\* or 0 when it does not match. Every repetition of the expression is
\* followed by something its class excludes, so the longest run is the only
\* one that can match.
Quote == "\""

Apostrophe == "'"

Backslash == "\\"

Newline == "\n"

At(d, i, c) == i <= Len(d) /\ d[i] = c

\* [^...]* from i: the index after the longest run of characters not in X
RECURSIVE RunNot(_, _, _)
RunNot(d, i, X) == IF i > Len(d) \/ d[i] \in X THEN i ELSE RunNot(d, i + 1, X)

\* \*+ from i, where d[i] is a star
RECURSIVE Stars(_, _)
Stars(d, i) == IF At(d, i, "*") THEN Stars(d, i + 1) ELSE i

\* (?:[^/*][^*]*\*+)*/ from k, the index after a run of stars
RECURSIVE blockTail(_, _)
blockTail(d, k) ==
    IF k > Len(d) THEN 0
    ELSE IF d[k] = "/" THEN k + 1
    ELSE LET s == RunNot(d, k + 1, {"*"}) IN
         IF s > Len(d) THEN 0 ELSE blockTail(d, Stars(d, s))

\* /\*[^*]*\*+(?:[^/*][^*]*\*+)*/
blockComment(d, i) ==
    IF At(d, i, "/") /\ At(d, i + 1, "*")
    THEN LET s == RunNot(d, i + 2, {"*"}) IN
         IF s > Len(d) THEN 0 ELSE blockTail(d, Stars(d, s))
    ELSE 0

\* [^\n]*(?:\n|$) from i
lineRest(d, i) ==
    LET e == RunNot(d, i, {Newline}) IN IF e <= Len(d) THEN e + 1 ELSE e

\* //[^\n]*(?:\n|$)
lineComment(d, i) == IF At(d, i, "/") /\ At(d, i + 1, "/") THEN lineRest(d, i + 2) ELSE 0

\* #[^\n]*(?:\n|$)
hashComment(d, i) == IF At(d, i, "#") THEN lineRest(d, i + 1) ELSE 0

\* [^q\\]*(?:\\[\S\s][^q\\]*)*q from k, inside a string opened by q
RECURSIVE quotedTail(_, _, _)
quotedTail(d, k, q) ==
    LET e == RunNot(d, k, {q, Backslash}) IN
    IF e > Len(d) THEN 0
    ELSE IF d[e] = q THEN e + 1
    ELSE IF e + 1 > Len(d) THEN 0
    ELSE quotedTail(d, e + 2, q)

\* "[^"\\]*(?:\\[\S\s][^"\\]*)*" and its twin with apostrophes
quoted(d, i, q) == IF At(d, i, q) THEN quotedTail(d, i + 1, q) ELSE 0

\* [\S\s][^/"'\\]*
anyRun(d, i) == RunNot(d, i + 1, {"/", Quote, Apostrophe, Backslash})

\* ReplaceAll(data, "$1") from index i on: the matches follow one another,
\* each the first alternative that matches where the last match ended; a
\* comment is replaced by nothing, the captured group by itself
RECURSIVE commentFrom(_, _)
commentFrom(d, i) ==
    IF i > Len(d) THEN <<>>
    ELSE IF blockComment(d, i) # 0 THEN commentFrom(d, blockComment(d, i))
    ELSE IF lineComment(d, i) # 0 THEN commentFrom(d, lineComment(d, i))
    ELSE IF hashComment(d, i) # 0 THEN commentFrom(d, hashComment(d, i))
    ELSE LET e == IF quoted(d, i, Quote) # 0 THEN quoted(d, i, Quote)
                  ELSE IF quoted(d, i, Apostrophe) # 0 THEN quoted(d, i, Apostrophe)
                  ELSE anyRun(d, i)
         IN SubSeq(d, i, e - 1) \o commentFrom(d, e)

\* the expression without its alternative for "#"
RECURSIVE commentFromNoHash(_, _)
commentFromNoHash(d, i) ==
    IF i > Len(d) THEN <<>>
    ELSE IF blockComment(d, i) # 0 THEN commentFromNoHash(d, blockComment(d, i))
    ELSE IF lineComment(d, i) # 0 THEN commentFromNoHash(d, lineComment(d, i))
    ELSE LET e == IF quoted(d, i, Quote) # 0 THEN quoted(d, i, Quote)
                  ELSE IF quoted(d, i, Apostrophe) # 0 THEN quoted(d, i, Apostrophe)
                  ELSE anyRun(d, i)
         IN SubSeq(d, i, e - 1) \o commentFromNoHash(d, e)

\* comment without its alternative for "#"
commentNoHash(data) == commentFromNoHash(data, 1)

comment(data) == commentFrom(data, 1)

(***************************************************************************)
(* Paths and the file system                                               *)
(***************************************************************************)
\* A path is a sequence of components, absolute when it starts with "/".
IsAbs(f) == f # <<>> /\ f[1] = "/"

\* filepath.Join: the second path is appended whether or not it is absolute
Join(dir, f) == dir \o (IF IsAbs(f) THEN Tail(f) ELSE f)

\* the package's search paths: the application's directory, then the user's
Paths == << <<"/", "bin">>, <<"/", "home">> >>

\* filepath.Join(appName, appName+".json")
DefaultName == <<"app", "app.json">>

Invalid == [kind |-> "invalid"]

Absent == [exists |-> FALSE, mtime |-> 0, readable |-> FALSE, data |-> Invalid]

FileOf(mtime, readable, data) ==
    [exists |-> TRUE, mtime |-> mtime, readable |-> readable, data |-> data]

\* the file system is [now, at]: a clock and the file at each path
fileAt(fs, path) == IF path \in DOMAIN fs.at THEN fs.at[path] ELSE Absent

writeFile(fs, path, data) ==
    [now |-> fs.now + 1,
     at |-> [q \in DOMAIN fs.at \cup {path} |->
                IF q = path THEN FileOf(fs.now + 1, TRUE, data) ELSE fs.at[q]]]

(***************************************************************************)
(* Config.readFile, Config.Save, Config.parseFiles, Config.to              *)
(***************************************************************************)
\* A call works on st = [cf, cm, tgt, fs, io]: configFile, configModified, the
\* target, the file system, and the set of file operations made so far. An
\* error is the sequence of the errors reported, <<>> for nil.
NoErr == <<>>

\* json.Unmarshal(c.comment(data), &vars) into an empty map
decodeFile(data) ==
    IF data.kind = "map" THEN [vars |-> data.m, err |-> NoErr]
    ELSE IF data.kind = "null" THEN [vars |-> EmptyMap, err |-> NoErr]
    ELSE [vars |-> EmptyMap, err |-> <<"parse">>]

\* readFile without the comparison of modification times
readFileAlways(st) ==
    LET f == fileAt(st.fs, st.cf)
        modTime == IF f.exists THEN f.mtime ELSE st.cm
        s2 == [st EXCEPT !.io = @ \cup {"stat", "read"}]
        s3 == [s2 EXCEPT !.io = @ \cup {"parse"}, !.cm = modTime]
    IN IF ~(f.exists /\ f.readable)
       THEN [st |-> s2, vars |-> EmptyMap, err |-> <<"read">>]
       ELSE [st |-> s3, vars |-> decodeFile(f.data).vars, err |-> decodeFile(f.data).err]

readFile(st) ==
    LET f == fileAt(st.fs, st.cf)
        modTime == IF f.exists THEN f.mtime ELSE st.cm
        s1 == [st EXCEPT !.io = @ \cup {"stat"}]
        s2 == [s1 EXCEPT !.io = @ \cup {"read"}]
        s3 == [s2 EXCEPT !.io = @ \cup {"parse"}, !.cm = modTime]
    IN IF f.exists /\ st.cm = modTime
       THEN [st |-> s1, vars |-> EmptyMap, err |-> <<"errNoChanges">>]
       ELSE IF ~(f.exists /\ f.readable)
       THEN [st |-> s2, vars |-> EmptyMap, err |-> <<"read">>]
       ELSE [st |-> s3, vars |-> decodeFile(f.data).vars, err |-> decodeFile(f.data).err]

\* what Encoder.Encode(c.target) writes
encodeTarget(tgt, type) == IF tgt = NoTarget THEN Null ELSE Map(marshal(type, tgt.m))

\* createOK: whether os.Create succeeds
save(st, type, createOK) ==
    IF st.cf = <<>> THEN [st |-> st, err |-> <<"errEmptyConfig">>]
    ELSE IF ~createOK
         THEN [st |-> [st EXCEPT !.io = @ \cup {"create"}], err |-> <<"create">>]
    ELSE [st |-> [st EXCEPT !.io = @ \cup {"create", "write"},
                            !.fs = writeFile(st.fs, st.cf, encodeTarget(st.tgt, type))],
          err |-> NoErr]

\* the paths parseFiles tries, in order
RECURSIVE candidates(_)
candidates(filenames) ==
    IF filenames = <<>> THEN <<>>
    ELSE (IF IsAbs(Head(filenames)) THEN <<Head(filenames)>>
          ELSE [i \in 1..Len(Paths) |-> Join(Paths[i], Head(filenames))])
         \o candidates(Tail(filenames))

RECURSIVE tryFiles(_, _, _, _, _)
tryFiles(st, type, filenames, cands, createOK) ==
    IF cands = <<>>
    THEN LET r == save([st EXCEPT !.cf = Join(Paths[Len(Paths)], filenames[1])],
                       type, createOK)
         IN [st |-> r.st, vars |-> EmptyMap, err |-> r.err]
    ELSE LET r == readFile([st EXCEPT !.cf = Head(cands)]) IN
         IF r.err = NoErr THEN r
         ELSE tryFiles(r.st, type, filenames, Tail(cands), createOK)

parseFiles(st, type, filenames, createOK) ==
    tryFiles(st, type, filenames, candidates(filenames), createOK)

\* [panic, st, err]
to(st, type, data) ==
    IF st.tgt = NoTarget THEN [panic |-> FALSE, st |-> st, err |-> <<"errNilTarget">>]
    ELSE LET combo == merge(data)
             r == cast(type, combo, {})
             u == unmarshal(type, st.tgt.m, r.m)
         IN IF r.panic THEN [panic |-> TRUE, st |-> st, err |-> NoErr]
            ELSE [panic |-> FALSE,
                  st |-> [st EXCEPT !.tgt = Map(u.t)],
                  err |-> IF u.err THEN <<"unmarshal">> ELSE NoErr]

(***************************************************************************)
(* Config.Add, Config.Load, Config.Reload                                  *)
(***************************************************************************)
Setting(name, desc, env, options) ==
    [Name |-> name, Description |-> desc, Env |-> env, Options |-> options]

\* add without the search for ".." in the name
addNoDoubleDot(regs, name, desc, env, options) ==
    IF name = <<>> THEN [settings |-> regs, err |-> <<"errEmptyName">>]
    ELSE IF env = <<>> /\ Len(options) = 0
         THEN [settings |-> regs, err |-> <<"errNoEnvOptions">>]
    ELSE IF name = <<".">> \/ HasPrefix(name, <<".">>) \/ HasSuffix(name, <<".">>)
         THEN [settings |-> regs, err |-> <<"errBadNameSyntax">>]
    ELSE IF \E i \in 1..Len(regs) : regs[i].Name = name
         THEN [settings |-> regs, err |-> <<"errConflictingAdd">>]
    ELSE [settings |-> Append(regs, Setting(name, desc, env, options)), err |-> NoErr]

\* [settings, err]
add(regs, name, desc, env, options) ==
    IF name = <<>> THEN [settings |-> regs, err |-> <<"errEmptyName">>]
    ELSE IF env = <<>> /\ Len(options) = 0
         THEN [settings |-> regs, err |-> <<"errNoEnvOptions">>]
    ELSE IF name = <<".">> \/ HasPrefix(name, <<".">>) \/ HasSuffix(name, <<".">>)
            \/ Contains(name, <<".", ".">>)
         THEN [settings |-> regs, err |-> <<"errBadNameSyntax">>]
    ELSE IF \E i \in 1..Len(regs) : regs[i].Name = name
         THEN [settings |-> regs, err |-> <<"errConflictingAdd">>]
    ELSE [settings |-> Append(regs, Setting(name, desc, env, options)), err |-> NoErr]

\* the loop of Load that drops the empty file names
dropEmpty(filenames) == SelectSeq(filenames, LAMBDA f : f # <<>>)

\* load handing the three maps to `to` in the opposite order
loadReversed(regs, desc, type, argv, e, st, filenames, createOK) ==
    LET opts == parseOptions(regs, desc, argv)
        files == parseFiles(st, type, Append(dropEmpty(filenames), DefaultName), createOK)
        envs == parseEnvs(regs, e)
        srcs == <<files.vars, envs.m, opts.m>>
        r == to(files.st, type, <<opts.m, envs.m, files.vars>>)
    IN IF opts.st = "exit" THEN [proc |-> "exited", st |-> st, err |-> NoErr, srcs |-> <<>>]
       ELSE IF opts.st = "panic"
            THEN [proc |-> "panicked", st |-> st, err |-> NoErr, srcs |-> <<>>]
       ELSE IF envs.st = "panic"
            THEN [proc |-> "panicked", st |-> files.st, err |-> NoErr, srcs |-> <<>>]
       ELSE IF r.panic
            THEN [proc |-> "panicked", st |-> files.st, err |-> NoErr, srcs |-> srcs]
       ELSE [proc |-> "running", st |-> r.st, srcs |-> srcs,
             err |-> IF r.err # NoErr THEN files.err \o r.err ELSE files.err]

\* load with parseFiles run before the help exit of parseOptions is taken
loadFilesFirst(regs, desc, type, argv, e, st, filenames, createOK) ==
    LET opts == parseOptions(regs, desc, argv)
        files == parseFiles(st, type, Append(dropEmpty(filenames), DefaultName), createOK)
        envs == parseEnvs(regs, e)
        srcs == <<files.vars, envs.m, opts.m>>
        r == to(files.st, type, srcs)
    IN IF opts.st = "exit"
       THEN [proc |-> "exited", st |-> files.st, err |-> NoErr, srcs |-> <<>>]
       ELSE IF opts.st = "panic"
            THEN [proc |-> "panicked", st |-> st, err |-> NoErr, srcs |-> <<>>]
       ELSE IF envs.st = "panic"
            THEN [proc |-> "panicked", st |-> files.st, err |-> NoErr, srcs |-> <<>>]
       ELSE IF r.panic
            THEN [proc |-> "panicked", st |-> files.st, err |-> NoErr, srcs |-> srcs]
       ELSE [proc |-> "running", st |-> r.st, srcs |-> srcs,
             err |-> IF r.err # NoErr THEN files.err \o r.err ELSE files.err]

\* [proc, st, err, srcs]: proc is "running" when Load returns, "exited" when
\* help ended the process, "panicked" when a panic did; srcs are the maps of
\* the file, the environment and the command line that Load handed to `to`
load(regs, desc, type, argv, e, st, filenames, createOK) ==
    LET opts == parseOptions(regs, desc, argv)
        files == parseFiles(st, type, Append(dropEmpty(filenames), DefaultName), createOK)
        envs == parseEnvs(regs, e)
        srcs == <<files.vars, envs.m, opts.m>>
        r == to(files.st, type, srcs)
    IN IF opts.st = "exit" THEN [proc |-> "exited", st |-> st, err |-> NoErr, srcs |-> <<>>]
       ELSE IF opts.st = "panic"
            THEN [proc |-> "panicked", st |-> st, err |-> NoErr, srcs |-> <<>>]
       ELSE IF envs.st = "panic"
            THEN [proc |-> "panicked", st |-> files.st, err |-> NoErr, srcs |-> <<>>]
       ELSE IF r.panic
            THEN [proc |-> "panicked", st |-> files.st, err |-> NoErr, srcs |-> srcs]
       ELSE [proc |-> "running", st |-> r.st, srcs |-> srcs,
             err |-> IF r.err # NoErr THEN files.err \o r.err ELSE files.err]

\* reload calling `to` whenever the file was read and parsed, empty or not
reloadAlwaysTo(type, st) ==
    IF st.cf = <<>>
    THEN [proc |-> "running", st |-> st, err |-> <<"errEmptyConfig">>, srcs |-> <<>>]
    ELSE LET f == readFile(st)
             r == to(f.st, type, <<f.vars>>)
         IN IF f.err = NoErr
            THEN IF r.panic
                 THEN [proc |-> "panicked", st |-> f.st, err |-> NoErr, srcs |-> <<f.vars>>]
                 ELSE [proc |-> "running", st |-> r.st, err |-> r.err, srcs |-> <<f.vars>>]
            ELSE [proc |-> "running", st |-> f.st, err |-> f.err, srcs |-> <<>>]

\* [proc, st, err, srcs]
reload(type, st) ==
    IF st.cf = <<>>
    THEN [proc |-> "running", st |-> st, err |-> <<"errEmptyConfig">>, srcs |-> <<>>]
    ELSE LET f == readFile(st)
             r == to(f.st, type, <<f.vars>>)
         IN IF f.err = NoErr /\ Cardinality(DOMAIN f.vars) > 0
            THEN IF r.panic
                 THEN [proc |-> "panicked", st |-> f.st, err |-> NoErr, srcs |-> <<f.vars>>]
                 ELSE [proc |-> "running", st |-> r.st, err |-> r.err, srcs |-> <<f.vars>>]
            ELSE [proc |-> "running", st |-> f.st, err |-> f.err, srcs |-> <<>>]

(***************************************************************************)
(* The variant with Callback and SIGHUP listener (config.go): readfile,    *)
(* cast, to and Reload                                                     *)
(***************************************************************************)
\* readfile: an unchanged modification time gives the empty map and no error;
\* configModified is assigned once the file is parsed
readfile(st) ==
    LET f == fileAt(st.fs, st.cf)
        modTime == IF f.exists THEN f.mtime ELSE st.cm
        s1 == [st EXCEPT !.io = @ \cup {"stat"}]
        s2 == [s1 EXCEPT !.io = @ \cup {"read"}]
        s3 == [s2 EXCEPT !.io = @ \cup {"parse"}]
    IN IF f.exists /\ st.cm = modTime
       THEN [st |-> s1, vars |-> EmptyMap, err |-> NoErr]
       ELSE IF ~(f.exists /\ f.readable)
       THEN [st |-> s2, vars |-> EmptyMap, err |-> <<"read">>]
       ELSE IF decodeFile(f.data).err # NoErr
       THEN [st |-> s3, vars |-> EmptyMap, err |-> decodeFile(f.data).err]
       ELSE [st |-> [s3 EXCEPT !.cm = modTime], vars |-> decodeFile(f.data).vars,
             err |-> NoErr]

\* cast of this variant: [panic, m, discard]. A string that does not parse
\* becomes false or 0, the values ParseBool and ParseFloat return with their
\* error; reflect.TypeOf(nil).Kind() panics here as well.
RECURSIVE castCallback(_, _, _)
castCallbackField(f, cs) ==
    LET k == IF f.Tag # <<>> THEN f.Tag ELSE f.Name IN
    IF f.Tag = <<"-">> \/ k \notin DOMAIN cs.m \/ k \in cs.discard THEN cs
    ELSE LET v == cs.m[k]
             seen == cs.discard \cup {k}
         IN IF v.kind = "null" THEN [panic |-> TRUE, m |-> cs.m, discard |-> seen]
            ELSE IF v.kind = "string" /\ f.Kind = "bool"
                 THEN [panic |-> FALSE, discard |-> seen,
                       m |-> Put(cs.m, k, IF ParseBool(v.s).ok THEN ParseBool(v.s).v
                                          ELSE Bool(FALSE))]
            ELSE IF v.kind = "string" /\ isNumeric(f.Kind)
                 THEN [panic |-> FALSE, discard |-> seen,
                       m |-> Put(cs.m, k, IF ParseFloat(v.s).ok THEN ParseFloat(v.s).v
                                          ELSE Num(0))]
            ELSE IF v.kind = "map" /\ f.Kind = "struct"
                 THEN LET r == castCallback(f.Fields, v.m, {}) IN
                      [panic |-> r.panic, m |-> Put(cs.m, k, Map(r.m)), discard |-> seen]
            ELSE [panic |-> FALSE, m |-> cs.m, discard |-> seen]

\* the first loop of cast, from field i on
RECURSIVE castCallbackFields(_, _, _)
castCallbackFields(type, i, cs) ==
    IF i > Len(type) \/ cs.panic THEN cs
    ELSE castCallbackFields(type, i + 1, castCallbackField(type[i], cs))

\* the second loop of cast: the untagged struct fields
RECURSIVE castCallbackStructs(_, _, _)
castCallbackStructs(type, i, cs) ==
    IF i > Len(type) \/ cs.panic THEN cs
    ELSE IF type[i].Tag # <<>> \/ type[i].Kind # "struct"
         THEN castCallbackStructs(type, i + 1, cs)
    ELSE castCallbackStructs(type, i + 1, castCallback(type[i].Fields, cs.m, cs.discard))

castCallback(type, m, discard) ==
    castCallbackStructs(type, 1,
        castCallbackFields(type, 1, [panic |-> FALSE, m |-> m, discard |-> discard]))

\* to: [panic, st]; the error of json.Unmarshal is dropped
toCallback(st, type, data) ==
    IF st.tgt = NoTarget THEN [panic |-> FALSE, st |-> st]
    ELSE LET r == castCallback(type, merge(data), {}) IN
         IF r.panic THEN [panic |-> TRUE, st |-> st]
         ELSE [panic |-> FALSE,
               st |-> [st EXCEPT !.tgt = Map(unmarshal(type, st.tgt.m, r.m).t)]]

\* Reload: [proc, st, err, srcs]; it returns nothing, so err is nil. The call
\* of the target's Callback is recorded as "callback" among the operations.
reloadCallback(type, st) ==
    IF st.cf = <<>> THEN [proc |-> "running", st |-> st, err |-> NoErr, srcs |-> <<>>]
    ELSE LET f == readfile(st)
             r == toCallback(f.st, type, <<f.vars>>)
         IN IF f.err = NoErr /\ Cardinality(DOMAIN f.vars) > 0
            THEN IF r.panic
                 THEN [proc |-> "panicked", st |-> f.st, err |-> NoErr, srcs |-> <<f.vars>>]
                 ELSE [proc |-> "running", err |-> NoErr, srcs |-> <<f.vars>>,
                       st |-> IF r.st.tgt = NoTarget THEN r.st
                              ELSE [r.st EXCEPT !.io = @ \cup {"callback"}]]
            ELSE [proc |-> "running", st |-> f.st, err |-> NoErr, srcs |-> <<>>]

(***************************************************************************)
(* The controller's operations as actions                                  *)
(***************************************************************************)
St == [cf |-> configFile, cm |-> configModified, tgt |-> target, fs |-> file, io |-> {}]

Returned(op, r) ==
    /\ configFile' = r.st.cf
    /\ configModified' = r.st.cm
    /\ target' = r.st.tgt
    /\ file' = r.st.fs
    /\ proc' = r.proc
    /\ last' = [op |-> op, err |-> r.err, io |-> r.st.io, srcs |-> r.srcs]

\* `call` holds the arguments of the last Add, or the input and the result of
\* the last call of one of the package's functions
NoCall == [op |-> "none"]

\* no goroutine holds a lock or is inside a call: every action of the
\* sequential specifications is one whole call, which takes and releases the
\* locks it needs
Nobody == "nobody"

Unlocked == [w |-> Nobody, r |-> {}]

NoGoroutines == <<>>

Sequential == mu = Unlocked /\ targetMu = Nobody /\ pc = NoGoroutines

New ==
    /\ Sequential
    /\ settings = <<>>
    /\ description = <<>>
    /\ configFile = <<>>
    /\ configModified = 0
    /\ target = NoTarget
    /\ proc = "running"
    /\ last = [op |-> "new", err |-> NoErr, io |-> {}, srcs |-> <<>>]

\* Config.Add(a[1], "", a[2], a[3]...) for one of the calls given
AddOf(calls, maxSettings) ==
    /\ proc = "running"
    /\ Len(settings) < maxSettings
    /\ \E a \in calls :
          LET r == add(settings, a[1], <<>>, a[2], a[3]) IN
          /\ settings' = r.settings
          /\ last' = [op |-> "Add", err |-> r.err, io |-> {}, srcs |-> <<>>]
          /\ call' = [op |-> "Add", name |-> a[1], env |-> a[2], options |-> a[3]]
    /\ UNCHANGED <<description, configFile, configModified, target, proc>>
    /\ UNCHANGED worldVars
    /\ UNCHANGED syncVars

\* Config.Target, with a struct holding its zero values
Target ==
    /\ proc = "running"
    /\ target = NoTarget
    /\ target' = Map(ZeroOf(TargetType))
    /\ last' = [op |-> "Target", err |-> NoErr, io |-> {}, srcs |-> <<>>]
    /\ UNCHANGED <<settings, description, configFile, configModified, proc, call>>
    /\ UNCHANGED worldVars
    /\ UNCHANGED syncVars

\* Config.Description, with a description that is not empty
Description ==
    /\ proc = "running"
    /\ description = <<>>
    /\ description' = <<"d">>
    /\ last' = [op |-> "Description", err |-> NoErr, io |-> {}, srcs |-> <<>>]
    /\ UNCHANGED <<settings, configFile, configModified, target, proc, call>>
    /\ UNCHANGED worldVars
    /\ UNCHANGED syncVars

LoadOf(names, maxTime) ==
    /\ proc = "running"
    /\ \E filenames \in names, createOK \in BOOLEAN :
          LET r == load(settings, description, TargetType, args, environ, St,
                        filenames, createOK)
          IN /\ r.st.fs.now <= maxTime
             /\ Returned("Load", r)
    /\ UNCHANGED <<settings, description, args, environ, call>>
    /\ UNCHANGED syncVars

Reload ==
    /\ proc = "running"
    /\ Returned("Reload", reload(TargetType, St))
    /\ UNCHANGED <<settings, description, args, environ, call>>
    /\ UNCHANGED syncVars

\* Reload of the variant with Callback, by hand or on SIGHUP
ReloadCallback ==
    /\ proc = "running"
    /\ Returned("Reload", reloadCallback(TargetType, St))
    /\ UNCHANGED <<settings, description, args, environ, call>>
    /\ UNCHANGED syncVars

SaveOf(maxTime) ==
    /\ proc = "running"
    /\ \E createOK \in BOOLEAN :
          LET r == save(St, TargetType, createOK) IN
          /\ r.st.fs.now <= maxTime
          /\ Returned("Save", [proc |-> "running", st |-> r.st, err |-> r.err, srcs |-> <<>>])
    /\ UNCHANGED <<settings, description, args, environ, call>>
    /\ UNCHANGED syncVars

\* another process rewrites a config file
EditFileOf(paths, contents, maxTime) ==
    /\ proc = "running"
    /\ file.now < maxTime
    /\ \E path \in paths, data \in contents :
          file' = writeFile(file, path, data)
    /\ UNCHANGED ctlVars
    /\ UNCHANGED <<args, environ, proc, last, call>>
    /\ UNCHANGED syncVars

(***************************************************************************)
(* Spec: the lifecycle of one controller. Settings are added, the target   *)
(* is set, and Load, Reload and Save run while another process edits the   *)
(* user's config file.                                                     *)
(***************************************************************************)
MaxSettings == 2
MaxTime == 3

UserFile == Join(Paths[2], DefaultName)

\* the Add calls of the lifecycle, <<name, env, options>>: one name is a
\* dot-prefix of the other
AddCalls ==
    { << <<"x">>, <<"G">>, <<>> >>,
      << <<"x", ".", "e">>, <<"H">>, << <<"-", "e">> >> >> }

ArgvSet == { <<>>, << <<"-", "e">> >>, << <<"-", "e">>, <<"-", "h">> >> }

EnvSet == { <<>>, [v \in {<<"G">>, <<"H">>} |-> <<"t">>] }

\* what the config file may hold: JSON objects, or no JSON at all
FileData ==
    { Map([k \in {<<"n">>} |-> Str(<<"f">>)]),
      Map([k \in {<<"n">>, <<"K">>} |-> IF k = <<"n">> THEN Str(<<"g">>) ELSE Str(<<"x">>)]),
      Map([k \in {<<"n">>} |-> Null]),
      Map([k \in {<<"K">>, <<"T">>} |-> IF k = <<"K">> THEN Num(1) ELSE Str(<<"d">>)]),
      Invalid }

Init ==
    /\ New
    /\ call = NoCall
    /\ args \in ArgvSet
    /\ environ \in EnvSet
    /\ file = [now |-> 1, at |-> [q \in {Join(Paths[1], DefaultName), UserFile} |-> Absent]]

Add == AddOf(AddCalls, MaxSettings)

Load == LoadOf({<<>>}, MaxTime)

Save == SaveOf(MaxTime)

EditFile == EditFileOf({UserFile}, FileData, MaxTime)

Next == Add \/ Target \/ Description \/ Load \/ Reload \/ Save \/ EditFile

Spec == Init /\ [][Next]_vars

(***************************************************************************)
(* SpecLoad: Load on its own. The argument vector, the environment and the *)
(* user's config file are drawn at the start; settings are added, the      *)
(* target is set, and Load runs.                                           *)
(***************************************************************************)
MaxLoadSettings == 2
MaxLoadTime == 2

LoadCalls ==
    { << <<"n">>, <<"E">>, << <<"-", "n">> >> >>,
      << <<"K">>, <<"F">>, << <<"-", "-", "k">> >> >>,
      << <<"x", ".", "e">>, <<"H">>, << <<"-", "e">> >> >> }

LoadArgv ==
    { <<>>,
      << <<"-", "n">>, <<"c">> >>,
      << <<"-", "n">>, <<"c">>, <<"-", "-", "k", "=", "3">>, <<"-", "e">> >> }

LoadEnv ==
    { <<>>,
      [v \in {<<"E">>, <<"F">>, <<"H">>} |->
          IF v = <<"E">> THEN <<"e">> ELSE IF v = <<"F">> THEN <<"2">> ELSE <<"f">>] }

LoadFiles ==
    { Absent,
      FileOf(1, TRUE, Map([k \in {<<"n">>, <<"K">>, <<"x">>} |->
                              IF k = <<"n">> THEN Str(<<"g">>)
                              ELSE IF k = <<"K">> THEN Num(1)
                              ELSE Map([j \in {<<"e">>, <<"D">>} |->
                                           IF j = <<"e">> THEN Bool(FALSE) ELSE Num(5)])])),
      FileOf(1, TRUE, Invalid) }

InitLoad ==
    /\ New
    /\ call = NoCall
    /\ args \in LoadArgv
    /\ environ \in LoadEnv
    /\ \E f \in LoadFiles :
          file = [now |-> 1, at |-> [q \in {Join(Paths[1], DefaultName), UserFile} |->
                                        IF q = UserFile THEN f ELSE Absent]]

AddLoad == AddOf(LoadCalls, MaxLoadSettings)

LoadAny == LoadOf({<<>>}, MaxLoadTime)

NextLoad == AddLoad \/ Target \/ LoadAny

SpecLoad == InitLoad /\ [][NextLoad]_vars

(***************************************************************************)
(* What a set of source maps assigns to the target, field by field         *)
(***************************************************************************)
\* The leaves of the target as json sees them: the key path in a JSON object,
\* the path of field names in the target, and the field.
Leaves ==
    LET top == jsonFields(TargetType) IN
    {[key |-> <<e.name>>, path |-> e.path, f |-> e.f] : e \in {x \in top : x.f.Kind # "struct"}}
    \cup UNION {
        {[key |-> <<e.name, d.name>>, path |-> e.path \o d.path, f |-> d.f] :
             d \in jsonFields(e.f.Fields)} :
        e \in {x \in top : x.f.Kind = "struct"}}

\* map m holds a value at the key path
HasKey(m, key) ==
    /\ key[1] \in DOMAIN m
    /\ Len(key) = 2 => (m[key[1]].kind = "map" /\ key[2] \in DOMAIN m[key[1]].m)

KeyValue(m, key) == IF Len(key) = 1 THEN m[key[1]] ELSE m[key[1]].m[key[2]]

\* map m decides the key path: it holds a value there, or a value that is no
\* object where the path passes
Supplies(m, key) ==
    HasKey(m, key) \/ (Len(key) = 2 /\ key[1] \in DOMAIN m /\ m[key[1]].kind # "map")

\* the value a field of kind `kind` takes from v, or `old` when it takes none
Assigned(kind, v, old) ==
    LET w == IF v.kind = "string" /\ kind = "bool" THEN ParseBool(v.s).v
             ELSE IF v.kind = "string" /\ kind = "int" THEN ParseFloat(v.s).v
             ELSE v
    IN IF (kind = "string" /\ w.kind = "string") \/ (kind = "bool" /\ w.kind = "bool")
          \/ (kind = "int" /\ w.kind = "number")
       THEN w ELSE old

\* The value of leaf l once the maps are applied, the map of highest
\* precedence first: the first map that supplies the key decides.
RECURSIVE ByPrecedence(_, _, _)
ByPrecedence(maps, l, old) ==
    IF maps = <<>> THEN old
    ELSE IF Supplies(Head(maps), l.key)
         THEN IF HasKey(Head(maps), l.key)
              THEN Assigned(l.f.Kind, KeyValue(Head(maps), l.key), old)
              ELSE old
    ELSE ByPrecedence(Tail(maps), l, old)

HasSetting(name) == \E i \in 1..Len(settings) : settings[i].Name = name

(***************************************************************************)
(* C1. Load gives the command line precedence over the environment and the *)
(* environment precedence over the config file: after a Load that returns, *)
(* every field of the target holds the value of the highest-precedence     *)
(* source that supplies its key (a value that cannot be assigned leaves    *)
(* the field as it was; keys no source supplies leave it as it was). With  *)
(* `n` registered for env E and flag -n, E=e and argv [-n c] give n = "c", *)
(* and the same call without the argv gives n = "e".                       *)
(***************************************************************************)
C1_LoadPrecedence ==
    [][(LoadAny /\ proc' = "running" /\ target # NoTarget) =>
          /\ Len(last'.srcs) = 3
          /\ \A l \in Leaves :
                GetAt(target'.m, l.path) =
                    ByPrecedence(<<last'.srcs[3], last'.srcs[2], last'.srcs[1]>>,
                                 l, GetAt(target.m, l.path))
          /\ (HasSetting(<<"n">>) /\ <<"E">> \in DOMAIN environ /\ environ[<<"E">>] = <<"e">>) =>
                /\ (Len(args) >= 2 /\ args[1] = <<"-", "n">> /\ args[2] = <<"c">>)
                      => target'.m[<<"N">>] = Str(<<"c">>)
                /\ args = <<>> => target'.m[<<"N">>] = Str(<<"e">>)]_vars

\* a Load returned with `n` supplied by the file, the environment and the
\* command line, and the target holds the command line's value
C1_Witness ==
    /\ last.op = "Load" /\ proc = "running" /\ Len(last.srcs) = 3
    /\ \A i \in 1..3 : <<"n">> \in DOMAIN last.srcs[i]
    /\ last.srcs[1][<<"n">>] = Str(<<"g">>)
    /\ last.srcs[2][<<"n">>] = Str(<<"e">>)
    /\ target # NoTarget /\ target.m[<<"N">>] = Str(<<"c">>)

(***************************************************************************)
(* C2. Load and Reload always end by returning: no call crashes the        *)
(* process (help, which exits with code 0, is the only termination).       *)
(***************************************************************************)
C2_NeverCrashes == proc # "panicked"

(***************************************************************************)
(* SpecReload: Reload in the two variants that have it, while another      *)
(* process edits the config file. `call` tells the variant. The latest     *)
(* variant starts from a new controller; the variant with Callback starts  *)
(* where its Load leaves a controller that found no file: the target's     *)
(* zero values saved at the last search path, no modification time yet.    *)
(***************************************************************************)
MaxReloadTime == 3

Variant(v) == [op |-> "variant", of |-> v]

\* filepath.Join(paths[len(paths)-1], appName+".json")
CallbackFile == Join(Paths[2], <<"app.json">>)

InitReload ==
    /\ args = <<>>
    /\ environ = <<>>
    /\ \/ /\ New
          /\ call = Variant("latest")
          /\ file = [now |-> 1,
                     at |-> [q \in {Join(Paths[1], DefaultName), UserFile} |-> Absent]]
       \/ /\ Sequential
          /\ settings = <<>>
          /\ description = <<>>
          /\ configFile = CallbackFile
          /\ configModified = 0
          /\ target = Map(ZeroOf(TargetType))
          /\ proc = "running"
          /\ last = [op |-> "Load", err |-> NoErr, io |-> {"stat", "read", "create", "write"},
                     srcs |-> <<>>]
          /\ call = Variant("callback")
          /\ file = [now |-> 1,
                     at |-> [q \in {CallbackFile} |->
                                FileOf(1, TRUE, encodeTarget(Map(ZeroOf(TargetType)), TargetType))]]

IsLatest == call = Variant("latest")

IsCallback == call = Variant("callback")

LatestTarget == IsLatest /\ Target

LatestLoad == IsLatest /\ LoadOf({<<>>}, MaxReloadTime)

LatestReload == IsLatest /\ Reload

LatestEdit == IsLatest /\ EditFileOf({UserFile}, FileData, MaxReloadTime)

CallbackReload == IsCallback /\ ReloadCallback

CallbackEdit == IsCallback /\ EditFileOf({CallbackFile}, FileData, MaxReloadTime)

NextReload ==
    LatestTarget \/ LatestLoad \/ LatestReload \/ LatestEdit \/ CallbackReload \/ CallbackEdit

SpecReload == InitReload /\ [][NextReload]_vars

(***************************************************************************)
(* C3. A Reload called while the config file's modification time equals    *)
(* the recorded one reads and parses nothing, does not call the target's   *)
(* Callback, and leaves the target, the settings, the config path and the  *)
(* recorded time as they were.                                             *)
(***************************************************************************)
FileUnchanged ==
    /\ configFile # <<>>
    /\ fileAt(file, configFile).exists
    /\ fileAt(file, configFile).mtime = configModified

C3_ReloadUnchanged ==
    [][((LatestReload \/ CallbackReload) /\ FileUnchanged) =>
          /\ target' = target
          /\ settings' = settings
          /\ configFile' = configFile
          /\ configModified' = configModified
          /\ file' = file
          /\ proc' = "running"
          /\ last'.io \subseteq {"stat"}]_vars

\* a Reload of an unchanged file returned, in the variant with Callback,
\* after another Reload had applied the file and called Callback
C3_Witness ==
    /\ IsCallback
    /\ last.op = "Reload" /\ last.io = {"stat"}
    /\ FileUnchanged
    /\ target # Map(ZeroOf(TargetType))

(***************************************************************************)
(* C4. Whenever Reload returns an error, every field of the target has the *)
(* value it had before the call.                                           *)
(***************************************************************************)
C4_ReloadErrorKeepsTarget ==
    [][(Reload /\ proc' = "running" /\ last'.err # NoErr) => target' = target]_vars

(***************************************************************************)
(* SpecAdd: Add called with names of every shape                           *)
(***************************************************************************)
MaxAddSettings == 2

AddNames ==
    { <<>>, <<".">>, <<".", "a">>, <<"a", ".">>, <<"a", ".", ".", "b">>, <<".", ".">>,
      <<"a">>, <<"b">>, <<"a", ".", "b">> }

\* <<env, options>>
AddSources ==
    { <<<<>>, <<>>>>, <<<<"E">>, <<>>>>, <<<<>>, << <<"-", "a">> >>>>, <<<<>>, << <<>> >>>> }

InitAdd ==
    /\ New
    /\ call = NoCall
    /\ args = <<>>
    /\ environ = <<>>
    /\ file = [now |-> 1, at |-> <<>>]

AddAny == AddOf({<<n, s[1], s[2]>> : n \in AddNames, s \in AddSources}, MaxAddSettings)

NextAdd == AddAny

SpecAdd == InitAdd /\ [][NextAdd]_vars

\* the name has an empty segment between, before or after its dots
EmptySegment(name) == \E i \in 1..Len(Split(name, ".")) : Split(name, ".")[i] = <<>>

(***************************************************************************)
(* C5. Add returns an error and leaves the registry as it was when the     *)
(* name is empty, when the environment variable is empty and no option is  *)
(* given, when the name has an empty dot-segment, or when the name is      *)
(* registered already; in every other case it appends exactly one setting  *)
(* and returns nil.                                                        *)
(***************************************************************************)
C5_AddValidates ==
    [][AddAny =>
          IF \/ call'.name = <<>>
             \/ (call'.env = <<>> /\ Len(call'.options) = 0)
             \/ EmptySegment(call'.name)
             \/ HasSetting(call'.name)
          THEN last'.err # NoErr /\ settings' = settings
          ELSE /\ last'.err = NoErr
               /\ settings' = Append(settings,
                                     Setting(call'.name, <<>>, call'.env, call'.options))]_vars

\* Add refused a name with an empty segment inside, with a setting registered
C5_Witness ==
    /\ last.op = "Add" /\ call.op = "Add"
    /\ call.name = <<"a", ".", ".", "b">> /\ call.env = <<"E">>
    /\ last.err = <<"errBadNameSyntax">>
    /\ Len(settings) = 1

(***************************************************************************)
(* SpecMerge: merge applied to a growing list of maps                      *)
(***************************************************************************)
MaxMaps == 3

One == Str(<<"1">>)

Two == Str(<<"2">>)

Only(k, v) == [x \in {k} |-> v]

\* what key "a" may hold: scalars, and objects one or two levels deep
MergeValues ==
    { One, Two, Map(EmptyMap), Map(Only(<<"a">>, One)), Map(Only(<<"b">>, Two)),
      Map(Only(<<"a">>, Map(Only(<<"b">>, One)))),
      Map(Only(<<"a">>, Map(Only(<<"a">>, Two)))) }

MergeMaps ==
    {EmptyMap, Only(<<"b">>, Two)}
    \cup {Only(<<"a">>, v) : v \in MergeValues}
    \cup {[x \in {<<"a">>, <<"b">>} |-> IF x = <<"a">> THEN v ELSE One] : v \in MergeValues}

InitMerge ==
    /\ New
    /\ args = <<>>
    /\ environ = <<>>
    /\ file = [now |-> 1, at |-> <<>>]
    /\ call = [op |-> "merge", maps |-> <<>>, out |-> merge(<<>>)]

\* merge(maps...) with one more map
Merge ==
    /\ call.op = "merge"
    /\ Len(call.maps) < MaxMaps
    /\ \E m \in MergeMaps :
          call' = [op |-> "merge", maps |-> Append(call.maps, m),
                   out |-> merge(Append(call.maps, m))]
    /\ UNCHANGED <<ctlVars, worldVars, proc, last>>
    /\ UNCHANGED syncVars

NextMerge == Merge

SpecMerge == InitMerge /\ [][NextMerge]_vars

\* The claim's rule, key by key: the values the maps hold for one key, taken
\* left to right; two objects combine by the same rule, else the later wins.
RECURSIVE FoldKey(_, _)
FoldKey(acc, vs) ==
    IF vs = <<>> THEN acc
    ELSE LET v == Head(vs)
             both == acc.kind = "map" /\ v.kind = "map"
             keys == IF both THEN DOMAIN acc.m \cup DOMAIN v.m ELSE {}
             inner == [k \in keys |->
                          IF k \notin DOMAIN v.m THEN acc.m[k]
                          ELSE IF k \notin DOMAIN acc.m THEN v.m[k]
                          ELSE FoldKey(acc.m[k], <<v.m[k]>>)]
         IN FoldKey(IF both THEN Map(inner) ELSE v, Tail(vs))

ValuesOf(maps, k) ==
    LET having == SelectSeq(maps, LAMBDA m : k \in DOMAIN m) IN
    [i \in 1..Len(having) |-> having[i][k]]

(***************************************************************************)
(* C6. merge returns a map whose keys are the union of the inputs' keys,   *)
(* and whose value for a key is found by taking the inputs left to right:  *)
(* two nested maps merge by the same rule, otherwise the later value       *)
(* replaces the earlier one.                                               *)
(***************************************************************************)
C6_Merge ==
    call.op = "merge" =>
        /\ DOMAIN call.out = UNION {DOMAIN call.maps[i] : i \in 1..Len(call.maps)}
        /\ \A k \in DOMAIN call.out :
              call.out[k] = FoldKey(Head(ValuesOf(call.maps, k)), Tail(ValuesOf(call.maps, k)))

\* nested maps were merged two levels down, and a scalar replaced by a map
C6_Witness ==
    /\ call.op = "merge" /\ Len(call.maps) = 3
    /\ call.maps[1] = Only(<<"a">>, One)
    /\ call.maps[2] = Only(<<"a">>, Map(Only(<<"a">>, Map(Only(<<"b">>, One)))))
    /\ call.maps[3] = [x \in {<<"a">>, <<"b">>} |->
                          IF x = <<"a">> THEN Map(Only(<<"a">>, Map(Only(<<"a">>, Two)))) ELSE One]
    /\ call.out[<<"a">>] =
          Map(Only(<<"a">>, Map([x \in {<<"a">>, <<"b">>} |-> IF x = <<"a">> THEN Two ELSE One])))

(***************************************************************************)
(* SpecParse: parseOptions and parseEnvs on their own, for registries that *)
(* Add accepted, an argument vector that grows token by token, and an      *)
(* environment drawn at the start.                                         *)
(***************************************************************************)
MaxArgs == 3

\* the registry a sequence of Add calls <<name, env, options>> leaves
RECURSIVE Registry(_)
Registry(calls) ==
    IF calls = <<>> THEN <<>>
    ELSE LET a == calls[Len(calls)] IN
         add(Registry(SubSeq(calls, 1, Len(calls) - 1)), a[1], <<>>, a[2], a[3]).settings

Greedy == <<"g", "r", "e", "e", "d", "y">>

\* Add("greedy", "", "", "-g:"), Add("f", "", "", "-f"), Add("2", "", "", "-2")
GreedyRegs ==
    Registry(<< <<Greedy, <<>>, << <<"-", "g", ":">> >> >>,
                <<<<"f">>, <<>>, << <<"-", "f">> >> >>,
                <<<<"2">>, <<>>, << <<"-", "2">> >> >> >>)

\* one name is a dot-prefix of the other
PrefixRegs ==
    Registry(<< <<<<"a">>, <<"A">>, << <<"-", "a">> >> >>,
                <<<<"a", ".", "b">>, <<"B">>, << <<"-", "b">> >> >> >>)

\* names that share parents, two and three segments long
SiblingRegs ==
    Registry(<< <<<<"a", ".", "b">>, <<"A">>, << <<"-", "-", "a", "b">> >> >>,
                <<<<"a", ".", "c">>, <<"B">>, << <<"-", "c">> >> >>,
                <<<<"a", ".", "d", ".", "e">>, <<"C">>, << <<"-", "b">> >> >> >>)

ParseRegs == {GreedyRegs, PrefixRegs, SiblingRegs}

ParseTokens ==
    { <<"-", "g", "f", "2">>, <<"-", "f", "g", "2">>, <<"-", "g">>, DashDash, <<"x">>,
      <<"-", "a">>, <<"-", "b">>, <<"-", "-", "a", "b">>, <<"-", "c">> }

ParseEnviron ==
    { <<>>, [v \in {<<"A">>, <<"B">>, <<"C">>} |-> IF v = <<"A">> THEN <<"x">> ELSE <<"y">>] }

InitParse ==
    /\ Sequential
    /\ settings \in ParseRegs
    /\ description = <<>>
    /\ configFile = <<>>
    /\ configModified = 0
    /\ target = NoTarget
    /\ proc = "running"
    /\ last = [op |-> "new", err |-> NoErr, io |-> {}, srcs |-> <<>>]
    /\ args = <<>>
    /\ environ \in ParseEnviron
    /\ file = [now |-> 1, at |-> <<>>]
    /\ call = NoCall

\* one more token on the command line
PushArg ==
    /\ Len(args) < MaxArgs
    /\ \E tok \in ParseTokens : args' = Append(args, tok)
    /\ call' = NoCall
    /\ UNCHANGED <<ctlVars, environ, file, proc, last>>
    /\ UNCHANGED syncVars

ParseOptions ==
    /\ call' = [op |-> "parseOptions", argv |-> args,
                out |-> parseOptions(settings, description, args)]
    /\ UNCHANGED <<ctlVars, worldVars, proc, last>>
    /\ UNCHANGED syncVars

ParseEnvs ==
    /\ call' = [op |-> "parseEnvs", out |-> parseEnvs(settings, environ)]
    /\ UNCHANGED <<ctlVars, worldVars, proc, last>>
    /\ UNCHANGED syncVars

NextParse == PushArg \/ ParseOptions \/ ParseEnvs

SpecParse == InitParse /\ [][NextParse]_vars

\* map m holds v at the nested path of keys, every step before the last a map
RECURSIVE HoldsAt(_, _, _)
HoldsAt(m, keys, v) ==
    /\ Head(keys) \in DOMAIN m
    /\ IF Len(keys) = 1 THEN m[Head(keys)] = v
       ELSE m[Head(keys)].kind = "map" /\ HoldsAt(m[Head(keys)].m, Tail(keys), v)

\* every token is an option, so that none is taken as a value
OptionsOnly(argv) ==
    \A j \in 1..Len(argv) : HasPrefix(argv[j], Dash) /\ argv[j] # DashDash

(***************************************************************************)
(* C7. For every setting whose value the environment or the command line   *)
(* supplies, the map the parser returns holds the value at the nested path *)
(* of the name's dot-separated segments, every intermediate segment being  *)
(* a nested map, entries written earlier under the same parents included.  *)
(***************************************************************************)
C7_SetNestedPath ==
    /\ call.op = "parseEnvs" =>
          /\ call.out.st = "run"
          /\ \A i \in 1..Len(settings) :
                (settings[i].Env # <<>> /\ Getenv(environ, settings[i].Env) # <<>>) =>
                    HoldsAt(call.out.m, Split(settings[i].Name, "."),
                            Str(Getenv(environ, settings[i].Env)))
    /\ (call.op = "parseOptions" /\ OptionsOnly(call.argv)) =>
          /\ call.out.st = "run"
          /\ \A i \in 1..Len(settings), j \in 1..Len(call.argv) :
                (Match(settings[i], call.argv[j]) = <<TRUE, FALSE>>) =>
                    HoldsAt(call.out.m, Split(settings[i].Name, "."), Bool(TRUE))

\* the first character of cluster a that spells the greedy option -g
FirstG(a) == CHOOSE p \in 1..Len(a) : a[p] = "g" /\ \A q \in 1..(p - 1) : a[q] # "g"

\* what a cluster of GreedyRegs' flags with a "g" before its end must give
ClusterMap(a) ==
    LET p == FirstG(a)
        flags == {<<a[q]>> : q \in 1..(p - 1)}
    IN [k \in flags \cup {Greedy} |->
           IF k = Greedy THEN Str(SubSeq(a, p + 1, Len(a))) ELSE Bool(TRUE)]

(***************************************************************************)
(* C8. In a cluster of short flags, a character that matches a greedy flag *)
(* and is not the last of the token takes the rest of the token as its     *)
(* setting's value, and no later character of the token is read as a flag: *)
(* with -g:, -f and -2 registered, [-gf2] gives exactly {greedy: "f2"}.    *)
(***************************************************************************)
C8_GreedyCluster ==
    (call.op = "parseOptions" /\ settings = GreedyRegs /\ Len(call.argv) >= 1) =>
        LET a == Tail(call.argv[1]) IN
        (/\ HasPrefix(call.argv[1], Dash) /\ ~HasPrefix(call.argv[1], DashDash)
         /\ \E p \in 1..(Len(a) - 1) : a[p] = "g"
         /\ \A j \in 2..Len(call.argv) : ~HasPrefix(call.argv[j], Dash)) =>
            /\ call.out.st = "run"
            /\ call.out.m = ClusterMap(a)
            /\ call.argv = << <<"-", "g", "f", "2">> >> =>
                  call.out.m = Only(Greedy, Str(<<"f", "2">>))

\* parseOptions returned for [-fg2]: f is set, greedy holds "2", 2 is not set
C8_Witness ==
    /\ call.op = "parseOptions" /\ settings = GreedyRegs
    /\ call.argv = << <<"-", "f", "g", "2">> >>
    /\ DOMAIN call.out.m = {<<"f">>, Greedy}
    /\ call.out.m[Greedy] = Str(<<"2">>)

\* the tokens before the first "--"
RECURSIVE BeforeDashDash(_)
BeforeDashDash(argv) ==
    IF argv = <<>> \/ Head(argv) = DashDash THEN <<>>
    ELSE <<Head(argv)>> \o BeforeDashDash(Tail(argv))

(***************************************************************************)
(* C9. parseOptions stops at the first token "--": the map is the one the  *)
(* tokens before it give on their own, so that no token at or after it     *)
(* sets a key and "--" is never the value of the flag before it, which is  *)
(* set to true instead, a greedy flag too.                                 *)
(***************************************************************************)
C9_DashDashStops ==
    (call.op = "parseOptions" /\ \E j \in 1..Len(call.argv) : call.argv[j] = DashDash) =>
        /\ call.out.m = parseOptions(settings, description, BeforeDashDash(call.argv)).m
        /\ call.out.st = parseOptions(settings, description, BeforeDashDash(call.argv)).st
        /\ (settings = GreedyRegs /\ call.argv[1] = <<"-", "g">> /\ call.argv[2] = DashDash) =>
              call.out.m = Only(Greedy, Bool(TRUE))
        /\ (settings = PrefixRegs /\ call.argv[1] = <<"-", "b">> /\ call.argv[2] = DashDash) =>
              call.out.m = Only(<<"a">>, Map(Only(<<"b">>, Bool(TRUE))))

\* parseOptions returned for [-g, --, -fg2]: greedy is true, nothing else set
C9_Witness ==
    /\ call.op = "parseOptions" /\ settings = GreedyRegs
    /\ call.argv = << <<"-", "g">>, DashDash, <<"-", "f", "g", "2">> >>
    /\ call.out.m = Only(Greedy, Bool(TRUE))

(***************************************************************************)
(* SpecComment: comment applied to data that grows character by character, *)
(* and to the line of the specification's example                          *)
(***************************************************************************)
MaxData == 5

DataChars == {"/", "*", Quote, Apostrophe, Backslash, Newline, "#", "a"}

\* {"key": "http://x"} // trailing
Example ==
    <<"{", Quote, "k", "e", "y", Quote, ":", " ", Quote, "h", "t", "t", "p", ":", "/", "/",
      "x", Quote, "}", " ", "/", "/", " ", "t", "r", "a", "i", "l", "i", "n", "g">>

Commented(data) == [op |-> "comment", data |-> data, out |-> comment(data)]

InitComment ==
    /\ New
    /\ args = <<>>
    /\ environ = <<>>
    /\ file = [now |-> 1, at |-> <<>>]
    /\ call \in {Commented(<<>>), Commented(Example)}

\* comment(data) with one more character
Comment ==
    /\ call.op = "comment"
    /\ Len(call.data) < MaxData
    /\ \E c \in DataChars : call' = Commented(Append(call.data, c))
    /\ UNCHANGED <<ctlVars, worldVars, proc, last>>
    /\ UNCHANGED syncVars

NextComment == Comment

SpecComment == InitComment /\ [][NextComment]_vars

\* A lexer written from the claim's words. d[j] closes the string that d[i]
\* opens when it is the same quote and an even number of backslashes stands
\* right before it inside the string; the string ends at the first such j.
BackslashesBefore(d, i, j) ==
    Cardinality({n \in 1..(j - i - 1) : \A q \in (j - n)..(j - 1) : d[q] = Backslash})

ClosesString(d, i, j) == d[j] = d[i] /\ BackslashesBefore(d, i, j) % 2 = 0

\* 0 when nothing closes the string
StringEnd(d, i) ==
    LET ends == {j \in (i + 1)..Len(d) :
                    ClosesString(d, i, j) /\ \A n \in (i + 1)..(j - 1) : ~ClosesString(d, i, n)}
    IN IF ends = {} THEN 0 ELSE CHOOSE j \in ends : TRUE

\* the index of the "/" of the first "*/" from k on, 0 when there is none
BlockEnd(d, k) ==
    LET ends == {j \in (k + 1)..Len(d) : d[j - 1] = "*" /\ d[j] = "/" /\ j - 1 >= k} IN
    IF ends = {} THEN 0 ELSE CHOOSE j \in ends : \A n \in ends : j <= n

\* the index of the newline that ends the line of d[i], Len(d) when none does
LineEnd(d, i) ==
    LET ends == {j \in i..Len(d) : d[j] = Newline} IN
    IF ends = {} THEN Len(d) ELSE CHOOSE j \in ends : \A n \in ends : j <= n

\* The tokens of d from i on, each [kind, text] with kind "comment", "string"
\* or "char". With `hash`, a "#" that stands at the start of the data or right
\* after a comment or a string opens a comment that runs to the end of the
\* line; `fresh` tells that d[i] stands at such a place.
RECURSIVE Lex(_, _, _, _)
Lex(d, i, hash, fresh) ==
    IF i > Len(d) THEN <<>>
    ELSE IF At(d, i, "/") /\ At(d, i + 1, "/")
         THEN <<[kind |-> "comment", text |-> SubSeq(d, i, LineEnd(d, i))]>>
              \o Lex(d, LineEnd(d, i) + 1, hash, TRUE)
    ELSE IF At(d, i, "/") /\ At(d, i + 1, "*") /\ BlockEnd(d, i + 2) # 0
         THEN <<[kind |-> "comment", text |-> SubSeq(d, i, BlockEnd(d, i + 2))]>>
              \o Lex(d, BlockEnd(d, i + 2) + 1, hash, TRUE)
    ELSE IF hash /\ fresh /\ d[i] = "#"
         THEN <<[kind |-> "comment", text |-> SubSeq(d, i, LineEnd(d, i))]>>
              \o Lex(d, LineEnd(d, i) + 1, hash, TRUE)
    ELSE IF d[i] \in {Quote, Apostrophe} /\ StringEnd(d, i) # 0
         THEN <<[kind |-> "string", text |-> SubSeq(d, i, StringEnd(d, i))]>>
              \o Lex(d, StringEnd(d, i) + 1, hash, TRUE)
    ELSE <<[kind |-> "char", text |-> <<d[i]>>]>> \o Lex(d, i + 1, hash, FALSE)

OfKind(tokens, kind) == SelectSeq(tokens, LAMBDA x : x.kind = kind)

RECURSIVE Texts(_)
Texts(tokens) == IF tokens = <<>> THEN <<>> ELSE Head(tokens).text \o Texts(Tail(tokens))

\* d without its comments
Stripped(d, hash) ==
    Texts(SelectSeq(Lex(d, 1, hash, TRUE), LAMBDA x : x.kind # "comment"))

ExampleStripped == SubSeq(Example, 1, 20)

MaxConcSettings == 2
MaxConcTime == 3

Goroutines == {"adder", "loader", "reader"}

Idle == [at |-> "idle"]

\* sync.RWMutex and sync.Mutex: Lock, Unlock, RLock, RUnlock
Lock(t) == mu.w = Nobody /\ mu.r = {} /\ mu' = [mu EXCEPT !.w = t]

Unlock(t) == mu' = [mu EXCEPT !.w = Nobody]

RLock(t) == mu.w = Nobody /\ mu' = [mu EXCEPT !.r = @ \cup {t}]

RUnlock(t) == mu' = [mu EXCEPT !.r = @ \ {t}]

\* c.target.(locker): mockConfig embeds sync.Mutex
implementsLockerNever(tgt) == FALSE

implementsLocker(tgt) == tgt # NoTarget

Goto(t, rec) == pc' = [pc EXCEPT ![t] = rec]

Pos(t, label) == pc[t].at = label

ConcCalls ==
    { << <<"n">>, <<"E">>, <<>> >>, << <<"K">>, <<"F">>, <<>> >> }

ConcEnv == [v \in {<<"E">>, <<"F">>} |-> IF v = <<"E">> THEN <<"e">> ELSE <<"2">>]

ConcFile(n, k) ==
    Map([x \in {<<"n">>, <<"K">>} |-> IF x = <<"n">> THEN Str(n) ELSE Num(k)])

InitConc ==
    /\ settings = <<>>
    /\ description = <<>>
    /\ configFile = <<>>
    /\ configModified = 0
    /\ target = Map(ZeroOf(TargetType))
    /\ proc = "running"
    /\ last = [op |-> "new", err |-> NoErr, io |-> {}, srcs |-> <<>>]
    /\ call = NoCall
    /\ args = <<>>
    /\ environ = ConcEnv
    /\ \E f \in {Absent, FileOf(1, TRUE, ConcFile(<<"g">>, 1))} :
          file = [now |-> 1,
                  at |-> [q \in {Join(Paths[1], DefaultName), UserFile} |->
                             IF q = UserFile THEN f ELSE Absent]]
    /\ mu = Unlocked
    /\ targetMu = Nobody
    /\ pc = [t \in Goroutines |-> Idle]

\* Add: the checks of the arguments, then c.mu.Lock()
AddLock ==
    /\ Pos("adder", "idle")
    /\ Len(settings) < MaxConcSettings
    /\ \E a \in ConcCalls :
          /\ Lock("adder")
          /\ Goto("adder", [at |-> "appending", a |-> a])
    /\ UNCHANGED <<ctlVars, worldVars, proc, last, call, targetMu>>

\* Add: the search for the name, the append, and the deferred Unlock
AddAppend ==
    /\ Pos("adder", "appending")
    /\ LET a == pc["adder"].a
           r == add(settings, a[1], <<>>, a[2], a[3])
       IN /\ settings' = r.settings
          /\ last' = [op |-> "Add", err |-> r.err, io |-> {}, srcs |-> <<>>]
    /\ Unlock("adder")
    /\ Goto("adder", Idle)
    /\ UNCHANGED <<description, configFile, configModified, target>>
    /\ UNCHANGED <<worldVars, proc, call, targetMu>>

\* the application's goroutine: s.Lock()
ReaderLock ==
    /\ Pos("reader", "idle")
    /\ targetMu = Nobody
    /\ targetMu' = "reader"
    /\ Goto("reader", [at |-> "reading"])
    /\ UNCHANGED <<ctlVars, worldVars, proc, last, call, mu>>

\* the application's goroutine: it reads the fields, then s.Unlock()
ReaderUnlock ==
    /\ Pos("reader", "reading")
    /\ targetMu' = Nobody
    /\ Goto("reader", Idle)
    /\ UNCHANGED <<ctlVars, worldVars, proc, last, call, mu>>

\* another process rewrites the user's config file
ConcEdit ==
    /\ file.now < MaxConcTime
    /\ file' = writeFile(file, UserFile, ConcFile(<<"h">>, 3))
    /\ UNCHANGED <<ctlVars, args, environ, proc, last, call, syncVars>>

\* the loader's variables inside a call: what parseOptions and parseEnvs see
\* of the registry when they start (seen), the results of the stages, and the
\* assignment under way (m, todo, old, new)
Fresh(op, at) ==
    [at |-> at, op |-> op, seen |-> settings, opts |-> EmptyMap, names |-> <<>>,
     cands |-> <<>>, vars |-> EmptyMap, ferr |-> NoErr, data |-> <<>>,
     m |-> EmptyMap, todo |-> {}, old |-> target, new |-> target, err |-> NoErr]

Loader == pc["loader"]

\* c.settings read with no lock held, while Add may be appending: the range
\* loop sees the registry as it was when the call started or as it is now
RacyRegistry == {Loader.seen, settings}

\* Load: parseOptions starts
LoadBegin ==
    /\ Pos("loader", "idle")
    /\ proc = "running"
    /\ file.now < MaxConcTime
    /\ Goto("loader", Fresh("Load", "parseOptions"))
    /\ UNCHANGED <<ctlVars, worldVars, proc, last, call, mu, targetMu>>

\* Load: parseOptions returns, and the empty file names are dropped
LoadOptions ==
    /\ Pos("loader", "parseOptions")
    /\ \E regs \in RacyRegistry :
          LET opts == parseOptions(regs, description, args)
              names == Append(dropEmpty(<<>>), DefaultName)
          IN IF opts.st = "run"
             THEN /\ Goto("loader", [Loader EXCEPT !.at = "parseFiles", !.opts = opts.m,
                                                   !.names = names,
                                                   !.cands = candidates(names)])
                  /\ UNCHANGED proc
             ELSE /\ Goto("loader", Idle)
                  /\ proc' = IF opts.st = "exit" THEN "exited" ELSE "panicked"
    /\ UNCHANGED <<ctlVars, worldVars, last, call, mu, targetMu>>

\* parseFiles: c.mu.Lock() before the next candidate is tried
PfLock ==
    /\ Pos("loader", "parseFiles")
    /\ Loader.cands # <<>>
    /\ Lock("loader")
    /\ Goto("loader", [Loader EXCEPT !.at = "setFile"])
    /\ UNCHANGED <<ctlVars, worldVars, proc, last, call, targetMu>>

\* parseFiles: c.configFile = the candidate; c.mu.Unlock()
PfSet ==
    /\ Pos("loader", "setFile")
    /\ configFile' = Head(Loader.cands)
    /\ Unlock("loader")
    /\ Goto("loader", [Loader EXCEPT !.at = "readFile"])
    /\ UNCHANGED <<settings, description, configModified, target>>
    /\ UNCHANGED <<worldVars, proc, last, call, targetMu>>

\* readFile: c.mu.Lock()
RfLock ==
    /\ Pos("loader", "readFile")
    /\ Lock("loader")
    /\ Goto("loader", [Loader EXCEPT !.at = "readFileLocked"])
    /\ UNCHANGED <<ctlVars, worldVars, proc, last, call, targetMu>>

\* readFile from stat to the deferred Unlock, and what its caller does with
\* the result: parseFiles returns or goes on to the next candidate, Reload
\* goes on to `to` or returns
RfBody ==
    /\ Pos("loader", "readFileLocked")
    /\ LET r == readFile(St)
           applies == r.err = NoErr /\ Cardinality(DOMAIN r.vars) > 0
       IN /\ configModified' = r.st.cm
          /\ IF Loader.op = "Load"
             THEN /\ Goto("loader",
                        IF r.err = NoErr
                        THEN [Loader EXCEPT !.at = "parseEnvs", !.vars = r.vars,
                                            !.seen = settings]
                        ELSE [Loader EXCEPT !.at = "parseFiles", !.cands = Tail(@)])
                  /\ UNCHANGED last
             ELSE IF applies
             THEN /\ Goto("loader", [Loader EXCEPT !.at = "to", !.data = <<r.vars>>])
                  /\ UNCHANGED last
             ELSE /\ Goto("loader", Idle)
                  /\ last' = [op |-> "Reload", err |-> r.err, io |-> {}, srcs |-> <<>>]
    /\ Unlock("loader")
    /\ UNCHANGED <<settings, description, configFile, target>>
    /\ UNCHANGED <<worldVars, proc, call, targetMu>>

\* parseFiles: c.mu.Lock() once no candidate could be loaded
FbLock ==
    /\ Pos("loader", "parseFiles")
    /\ Loader.cands = <<>>
    /\ Lock("loader")
    /\ Goto("loader", [Loader EXCEPT !.at = "fallback"])
    /\ UNCHANGED <<ctlVars, worldVars, proc, last, call, targetMu>>

\* parseFiles: c.configFile = the fallback path; c.mu.Unlock()
FbSet ==
    /\ Pos("loader", "fallback")
    /\ configFile' = Join(Paths[Len(Paths)], Loader.names[1])
    /\ Unlock("loader")
    /\ Goto("loader", [Loader EXCEPT !.at = "Save"])
    /\ UNCHANGED <<settings, description, configModified, target>>
    /\ UNCHANGED <<worldVars, proc, last, call, targetMu>>

\* Save: c.mu.RLock()
SaveRLock ==
    /\ Pos("loader", "Save")
    /\ RLock("loader")
    /\ Goto("loader", [Loader EXCEPT !.at = "SaveLocked"])
    /\ UNCHANGED <<ctlVars, worldVars, proc, last, call, targetMu>>

\* Save up to the deferred RUnlock; parseFiles returns its error
SaveBody ==
    /\ Pos("loader", "SaveLocked")
    /\ LET r == save(St, TargetType, TRUE) IN
          /\ file' = r.st.fs
          /\ Goto("loader", [Loader EXCEPT !.at = "parseEnvs", !.ferr = r.err,
                                            !.seen = settings])
    /\ RUnlock("loader")
    /\ UNCHANGED <<ctlVars, args, environ, proc, last, call, targetMu>>

\* Load: parseEnvs returns
LoadEnvs ==
    /\ Pos("loader", "parseEnvs")
    /\ \E regs \in RacyRegistry :
          LET e == parseEnvs(regs, environ) IN
          IF e.st = "panic"
          THEN /\ Goto("loader", Idle)
               /\ proc' = "panicked"
          ELSE /\ Goto("loader", [Loader EXCEPT !.at = "to",
                                                !.data = <<Loader.vars, e.m, Loader.opts>>])
               /\ UNCHANGED proc
    /\ UNCHANGED <<ctlVars, worldVars, last, call, mu, targetMu>>

\* what Load or Reload returns once `to` has returned e
Combined(e) ==
    IF Loader.op = "Load" /\ e # NoErr THEN Loader.ferr \o e
    ELSE IF Loader.op = "Load" THEN Loader.ferr
    ELSE e

\* to: c.mu.Lock()
ToLock ==
    /\ Pos("loader", "to")
    /\ Lock("loader")
    /\ Goto("loader", [Loader EXCEPT !.at = "toLocked"])
    /\ UNCHANGED <<ctlVars, worldVars, proc, last, call, targetMu>>

\* to: the test for a nil target, merge, l.Lock() when the target is a
\* locker, and cast, which reads the target's type and writes the merged map
ToTargetLock ==
    /\ Pos("loader", "toLocked")
    /\ IF target = NoTarget
       THEN /\ Unlock("loader")
            /\ Goto("loader", Idle)
            /\ last' = [op |-> Loader.op, err |-> Combined(<<"errNilTarget">>),
                        io |-> {}, srcs |-> Loader.data]
            /\ UNCHANGED <<proc, targetMu>>
       ELSE LET r == cast(TargetType, merge(Loader.data), {}) IN
            /\ IF implementsLocker(target)
               THEN targetMu = Nobody /\ targetMu' = "loader"
               ELSE UNCHANGED targetMu
            /\ proc' = IF r.panic THEN "panicked" ELSE proc
            /\ Goto("loader",
                    [Loader EXCEPT !.at = "assign", !.m = r.m,
                                   !.todo = IF r.panic THEN {} ELSE DOMAIN r.m,
                                   !.old = target,
                                   !.new = Map(unmarshal(TargetType, target.m, r.m).t)])
            /\ UNCHANGED <<mu, last>>
    /\ UNCHANGED <<ctlVars, worldVars, call>>

\* json.Unmarshal(final, c.target): the next key of the object is decoded
\* and assigned to its field
ToAssign ==
    /\ Pos("loader", "assign")
    /\ Loader.todo # {}
    /\ LET k == CHOOSE x \in Loader.todo : TRUE
           u == unmarshal(TargetType, target.m, [x \in {k} |-> Loader.m[k]])
       IN /\ target' = Map(u.t)
          /\ Goto("loader", [Loader EXCEPT !.todo = @ \ {k},
                                           !.err = IF u.err THEN <<"unmarshal">> ELSE @])
    /\ UNCHANGED <<settings, description, configFile, configModified>>
    /\ UNCHANGED <<worldVars, proc, last, call, mu, targetMu>>

\* to returns: the deferred l.Unlock() and c.mu.Unlock() run, and Load or
\* Reload returns
ToReturn ==
    /\ Pos("loader", "assign")
    /\ Loader.todo = {}
    /\ targetMu' = IF targetMu = "loader" THEN Nobody ELSE targetMu
    /\ Unlock("loader")
    /\ last' = [op |-> Loader.op, err |-> Combined(Loader.err), io |-> {},
                srcs |-> Loader.data]
    /\ Goto("loader", Idle)
    /\ UNCHANGED <<ctlVars, worldVars, proc, call>>

\* Reload: ConfigFile takes c.mu.RLock()
ReloadBegin ==
    /\ Pos("loader", "idle")
    /\ proc = "running"
    /\ RLock("loader")
    /\ Goto("loader", Fresh("Reload", "ConfigFile"))
    /\ UNCHANGED <<ctlVars, worldVars, proc, last, call, targetMu>>

\* Reload: ConfigFile reads c.configFile and releases the lock; an empty path
\* is errEmptyConfig
ReloadConfigFile ==
    /\ Pos("loader", "ConfigFile")
    /\ RUnlock("loader")
    /\ IF configFile = <<>>
       THEN /\ Goto("loader", Idle)
            /\ last' = [op |-> "Reload", err |-> <<"errEmptyConfig">>, io |-> {},
                        srcs |-> <<>>]
       ELSE /\ Goto("loader", [Loader EXCEPT !.at = "readFile"])
            /\ UNCHANGED last
    /\ UNCHANGED <<ctlVars, worldVars, proc, call, targetMu>>

NextConc ==
    \/ AddLock \/ AddAppend \/ ReaderLock \/ ReaderUnlock \/ ConcEdit
    \/ LoadBegin \/ LoadOptions \/ PfLock \/ PfSet \/ RfLock \/ RfBody
    \/ FbLock \/ FbSet \/ SaveRLock \/ SaveBody \/ LoadEnvs
    \/ ToLock \/ ToTargetLock \/ ToAssign \/ ToReturn
    \/ ReloadBegin \/ ReloadConfigFile

SpecConc == InitConc /\ [][NextConc]_vars

\* the target holds some of the fields of the assignment under way, not all
HalfAssigned ==
    Pos("loader", "assign") /\ target # Loader.old /\ target # Loader.new

\* C11: when the target implements Lock/Unlock, every write of a Load or
\* Reload assignment to the target is made with the target's lock held by the
\* controller, taken before the first write and held until after the last, so
\* a reader that holds the target's lock never sees the target with only some
\* of the fields of one load assigned.
C11_TargetLockBrackets ==
    /\ [](targetMu = "reader" => ~HalfAssigned)
    /\ [][target' # target => targetMu = "loader" /\ targetMu' = "loader"]_vars

\* a Load has assigned one of its two fields under the target's lock while
\* the reader has yet to take it
C11_Witness ==
    /\ HalfAssigned
    /\ targetMu = "loader"
    /\ Loader.op = "Load"
    /\ Cardinality(Loader.todo) = 1
    /\ Pos("reader", "idle")

\* the positions at which a goroutine reads or writes the controller's
\* registry, path, modification time or target reference
Touching(t) ==
    pc[t].at \in {"parseOptions", "parseEnvs", "appending", "setFile", "readFileLocked",
                  "fallback", "SaveLocked", "ConfigFile", "toLocked", "assign"}

Holds(t) == mu.w = t \/ t \in mu.r

\* C12: every read or write of the controller's state by Add, Load, Reload
\* and Save is made with the controller's lock held, and Load never reads the
\* registry while Add is appending to it.
C12_StateUnderLock ==
    /\ \A t \in DOMAIN pc : Touching(t) => Holds(t)
    /\ ~(Pos("adder", "appending") /\ Loader.at \in {"parseOptions", "parseEnvs"})

(***************************************************************************)
(* SpecCallback: Reload of the variant with Callback (config.go), step by  *)
(* step. The goroutine "reloader" is the SIGHUP listener; the target is a  *)
(* locker and a callbacker whose Callback locks the target and asks the    *)
(* controller for ConfigFile. Another process rewrites the config file.    *)
(***************************************************************************)
MaxCallbackTime == 3

Reloader == pc["reloader"]

InitCallback ==
    /\ settings = <<>>
    /\ description = <<>>
    /\ configFile = CallbackFile
    /\ configModified = 0
    /\ target = Map(ZeroOf(TargetType))
    /\ proc = "running"
    /\ last = [op |-> "Load", err |-> NoErr, io |-> {}, srcs |-> <<>>]
    /\ call = Variant("callback")
    /\ args = <<>>
    /\ environ = <<>>
    /\ file = [now |-> 1,
               at |-> [q \in {CallbackFile} |->
                          FileOf(1, TRUE, encodeTarget(Map(ZeroOf(TargetType)), TargetType))]]
    /\ mu = Unlocked
    /\ targetMu = Nobody
    /\ pc = [t \in {"reloader"} |-> Idle]

\* the locks once the deferred Unlock calls of `to` have run: [mu, targetMu];
\* toDeferredNone leaves them as they are inside `to`
toDeferredNone(t) == [mu |-> mu, targetMu |-> targetMu]

toDeferred(t) ==
    [mu |-> [mu EXCEPT !.w = Nobody],
     targetMu |-> IF targetMu = t THEN Nobody ELSE targetMu]

\* Reload: ConfigFile takes c.RLock()
CbReloadBegin ==
    /\ Pos("reloader", "idle")
    /\ proc = "running"
    /\ RLock("reloader")
    /\ Goto("reloader", [at |-> "ConfigFile", vars |-> EmptyMap])
    /\ UNCHANGED <<ctlVars, worldVars, proc, last, call, targetMu>>

\* Reload: ConfigFile returns c.configFile; Reload returns when it is empty
CbConfigFile ==
    /\ Pos("reloader", "ConfigFile")
    /\ RUnlock("reloader")
    /\ Goto("reloader", IF configFile = <<>> THEN Idle
                        ELSE [Reloader EXCEPT !.at = "readfile"])
    /\ UNCHANGED <<ctlVars, worldVars, proc, last, call, targetMu>>

\* readfile: c.Lock()
CbReadfileLock ==
    /\ Pos("reloader", "readfile")
    /\ Lock("reloader")
    /\ Goto("reloader", [Reloader EXCEPT !.at = "readfileLocked"])
    /\ UNCHANGED <<ctlVars, worldVars, proc, last, call, targetMu>>

\* readfile from stat to the deferred Unlock; Reload goes on to `to` when the
\* map read is not empty
CbReadfile ==
    /\ Pos("reloader", "readfileLocked")
    /\ LET r == readfile(St) IN
          /\ configModified' = r.st.cm
          /\ Goto("reloader",
                  IF r.err = NoErr /\ Cardinality(DOMAIN r.vars) > 0
                  THEN [Reloader EXCEPT !.at = "to", !.vars = r.vars]
                  ELSE Idle)
    /\ Unlock("reloader")
    /\ UNCHANGED <<settings, description, configFile, target>>
    /\ UNCHANGED <<worldVars, proc, last, call, targetMu>>

\* to: c.Lock()
CbToLock ==
    /\ Pos("reloader", "to")
    /\ Lock("reloader")
    /\ Goto("reloader", [Reloader EXCEPT !.at = "toLocked"])
    /\ UNCHANGED <<ctlVars, worldVars, proc, last, call, targetMu>>

\* to: merge, and the target's Lock()
CbToTargetLock ==
    /\ Pos("reloader", "toLocked")
    /\ target # NoTarget
    /\ targetMu = Nobody
    /\ targetMu' = "reloader"
    /\ Goto("reloader", [Reloader EXCEPT !.at = "assign"])
    /\ UNCHANGED <<ctlVars, worldVars, proc, last, call, mu>>

\* to: cast, json.Marshal and json.Unmarshal onto the target; then `to`
\* returns and its deferred calls run
CbToAssign ==
    /\ Pos("reloader", "assign")
    /\ LET r == toCallback(St, TargetType, <<Reloader.vars>>) IN
          /\ target' = r.st.tgt
          /\ proc' = IF r.panic THEN "panicked" ELSE proc
          /\ Goto("reloader", IF r.panic THEN Idle ELSE [Reloader EXCEPT !.at = "Callback"])
    /\ mu' = toDeferred("reloader").mu
    /\ targetMu' = toDeferred("reloader").targetMu
    /\ UNCHANGED <<settings, description, configFile, configModified>>
    /\ UNCHANGED <<worldVars, last, call>>

\* Callback: the target's Lock()
CallbackLock ==
    /\ Pos("reloader", "Callback")
    /\ targetMu = Nobody
    /\ targetMu' = "reloader"
    /\ Goto("reloader", [Reloader EXCEPT !.at = "CallbackConfigFile"])
    /\ UNCHANGED <<ctlVars, worldVars, proc, last, call, mu>>

\* Callback: c.ConfigFile() takes c.RLock()
CallbackRLock ==
    /\ Pos("reloader", "CallbackConfigFile")
    /\ RLock("reloader")
    /\ Goto("reloader", [Reloader EXCEPT !.at = "CallbackReturn"])
    /\ UNCHANGED <<ctlVars, worldVars, proc, last, call, targetMu>>

\* Callback: ConfigFile returns, the target is unlocked, and Callback and
\* Reload return
CallbackReturn ==
    /\ Pos("reloader", "CallbackReturn")
    /\ RUnlock("reloader")
    /\ targetMu' = Nobody
    /\ last' = [op |-> "Reload", err |-> NoErr, io |-> {"callback"},
                srcs |-> <<Reloader.vars>>]
    /\ Goto("reloader", Idle)
    /\ UNCHANGED <<ctlVars, worldVars, proc, call>>

CbEdit == EditFileOf({CallbackFile}, FileData, MaxCallbackTime)

NextCallback ==
    \/ CbReloadBegin \/ CbConfigFile \/ CbReadfileLock \/ CbReadfile
    \/ CbToLock \/ CbToTargetLock \/ CbToAssign
    \/ CallbackLock \/ CallbackRLock \/ CallbackReturn \/ CbEdit

\* the reloader keeps running: none of its steps waits for anything but a lock
SpecCallback ==
    /\ InitCallback
    /\ [][NextCallback]_vars
    /\ WF_vars(CallbackLock) /\ WF_vars(CallbackRLock) /\ WF_vars(CallbackReturn)

InCallback == Reloader.at \in {"Callback", "CallbackConfigFile", "CallbackReturn"}

\* C13: after a Reload that applied a changed file, Callback is invoked with
\* neither the controller's lock nor the target's lock held by the reloading
\* goroutine, so a Callback that locks the target and calls ConfigFile
\* returns.
C13_CallbackOutsideLocks ==
    /\ [](Pos("reloader", "Callback") =>
             mu.w # "reloader" /\ "reloader" \notin mu.r /\ targetMu # "reloader")
    /\ (InCallback ~> Pos("reloader", "idle"))

\* Callback has returned after a Reload that assigned the file's value
C13_Witness ==
    /\ Pos("reloader", "idle")
    /\ last.io = {"callback"}
    /\ target.m[<<"N">>] = Str(<<"f">>)
    /\ mu = Unlocked
    /\ targetMu = Nobody

(***************************************************************************)
(* SpecStages: the stages of Load. The argument vector may hold a help     *)
(* token or a value that is no number, the environment may too, the user's *)
(* config file may be missing or hold no JSON, and Load is called with no  *)
(* name, with an absolute name or with an empty and a relative name.       *)
(***************************************************************************)
MaxStageTime == 2

\* Add("n", "", "E", "-n"), Add("K", "", "F", "--k")
StageRegs ==
    Registry(<< << <<"n">>, <<"E">>, << <<"-", "n">> >> >>,
                << <<"K">>, <<"F">>, << <<"-", "-", "k">> >> >> >>)

StageArgv ==
    { <<>>, << <<"-", "-", "k", "=", "z">> >>, << <<"-", "h">> >> }

StageEnv ==
    { <<>>, [v \in {<<"E">>, <<"F">>} |-> IF v = <<"E">> THEN <<"e">> ELSE <<"z">>] }

StageFiles ==
    { Absent, FileOf(1, TRUE, ConcFile(<<"g">>, 1)), FileOf(1, TRUE, Invalid) }

AbsName == <<"/", "etc", "c.json">>

RelName == <<"c.json">>

StageNames == { <<>>, <<AbsName>>, << <<>>, RelName >> }

InitStages ==
    /\ Sequential
    /\ settings = StageRegs
    /\ description = <<>>
    /\ configFile = <<>>
    /\ configModified = 0
    /\ target = NoTarget
    /\ proc = "running"
    /\ last = [op |-> "Add", err |-> NoErr, io |-> {}, srcs |-> <<>>]
    /\ call = NoCall
    /\ args \in StageArgv
    /\ environ \in StageEnv
    /\ \E f \in StageFiles : file = [now |-> 1, at |-> [q \in {UserFile} |-> f]]

LoadNamed(names) == LoadOf({names}, MaxStageTime)

LoadStage == \E names \in StageNames : LoadNamed(names)

NextStages == Target \/ Description \/ LoadStage

SpecStages == InitStages /\ [][NextStages]_vars

(***************************************************************************)
(* Load: the order of its stages and its errors                            *)
(***************************************************************************)
\* C14: a Load that a help token ends (the description is not empty) parsed
\* the argument vector before any file work: the process exits having made no
\* stat, read, create or write, with the files, the config path and the
\* target as they were.
C14_HelpBeforeFiles ==
    [][(LoadStage /\ proc' = "exited") =>
          /\ description # <<>>
          /\ \E i \in 1..Len(args) : args[i] \in HelpTokens
          /\ last'.io = {}
          /\ file' = file
          /\ target' = target
          /\ configFile' = configFile
          /\ configModified' = configModified]_vars

\* help has ended a Load of a controller with a target and no config file yet
C14_Witness ==
    /\ proc = "exited"
    /\ last.op = "Load"
    /\ last.io = {}
    /\ target # NoTarget
    /\ configFile = <<>>
    /\ ~fileAt(file, UserFile).exists

\* v is a string that the field of leaf l cannot take: no boolean for a bool
\* field, no number for a numeric one
Unparseable(l, v) ==
    /\ v.kind = "string"
    /\ \/ l.f.Kind = "bool" /\ ~ParseBool(v.s).ok
       \/ isNumeric(l.f.Kind) /\ ~ParseFloat(v.s).ok

\* the command line or the environment supplies the key of leaf l
FromCliOrEnv(srcs, l) == Supplies(srcs[3], l.key) \/ Supplies(srcs[2], l.key)

\* the leaves for which the merged map holds an unparseable string of the
\* command line or the environment
BadLeaves(srcs) ==
    {l \in Leaves : /\ FromCliOrEnv(srcs, l)
                    /\ HasKey(merge(srcs), l.key)
                    /\ Unparseable(l, KeyValue(merge(srcs), l.key))}

\* C15: when a string of the command line or the environment is no boolean
\* or number as its field requires, cast leaves it in the merged map as it is,
\* Load returns an error, and every other field is assigned the value its
\* sources supply.
C15_CastKeepsUnparseable ==
    [][(LoadStage /\ proc' = "running" /\ target # NoTarget
            /\ BadLeaves(last'.srcs) # {}) =>
          LET srcs == last'.srcs
              merged == merge(srcs)
              casted == cast(TargetType, merged, {}).m
          IN /\ \A l \in BadLeaves(srcs) :
                   /\ HasKey(casted, l.key)
                   /\ KeyValue(casted, l.key) = KeyValue(merged, l.key)
                   /\ GetAt(target'.m, l.path) = GetAt(target.m, l.path)
             /\ last'.err # NoErr
             /\ \A l \in Leaves \ BadLeaves(srcs) :
                   GetAt(target'.m, l.path) =
                       ByPrecedence(<<srcs[3], srcs[2], srcs[1]>>, l,
                                    GetAt(target.m, l.path))]_vars

\* a Load returned an error for K = "z" of the environment and assigned n
C15_Witness ==
    /\ last.op = "Load" /\ proc = "running" /\ target # NoTarget
    /\ Len(last.srcs) = 3
    /\ <<"K">> \in DOMAIN last.srcs[2] /\ last.srcs[2][<<"K">>] = Str(<<"z">>)
    /\ last.srcs[3] = EmptyMap
    /\ last.err = <<"unmarshal">>
    /\ target.m[<<"N">>] = Str(<<"e">>)
    /\ target.m[<<"K">>] = Num(0)

\* the file stage of the Load just made loaded no candidate: parseFiles went
\* on to its fallback, which creates the file
FileStageFailed(l) == "create" \in l.io

\* C16: when the file stage of Load fails (no candidate can be read, or the
\* file read holds no JSON), Load still applies the values of the environment
\* and the command line and returns an error; when the assignment fails too,
\* the error holds both failures.
C16_FileFailureReported ==
    [][(LoadStage /\ proc' = "running" /\ target # NoTarget
            /\ FileStageFailed(last')) =>
          LET srcs == last'.srcs IN
          /\ \A l \in Leaves :
                GetAt(target'.m, l.path) =
                    ByPrecedence(<<srcs[3], srcs[2]>>, l, GetAt(target.m, l.path))
          /\ last'.err # NoErr
          /\ BadLeaves(srcs) # {} => Len(last'.err) = 2]_vars

(***************************************************************************)
(* SpecRound: Save and Load in turn, with no argument on the command line  *)
(* and no variable in the environment. The application assigns the fields  *)
(* of its target between the calls; the target has a slice among them.     *)
(***************************************************************************)
MaxRoundTime == 3

\* type roundConfig struct {
\*     N string   `json:"n"`
\*     K int
\*     L []string
\*     P string   `json:"-"`
\* }
RoundType ==
    << Field(<<"N">>, <<"n">>, "string", FALSE, <<>>),
       Field(<<"K">>, <<>>, "int", FALSE, <<>>),
       Field(<<"L">>, <<>>, "slice", FALSE, <<>>),
       Field(<<"P">>, <<"-">>, "string", FALSE, <<>>) >>

RoundTargets ==
    { Map([f \in FieldNames(RoundType) |->
              CASE f = <<"N">> -> Str(n)
                [] f = <<"K">> -> Num(k)
                [] f = <<"L">> -> l
                [] OTHER -> Str(q)]) :
        n \in {<<>>, <<"a">>}, k \in {0, 7},
        l \in {Null, Arr(<<Str(<<"s">>)>>)}, q \in {<<>>, <<"p">>} }

InitRound ==
    /\ Sequential
    /\ settings = StageRegs
    /\ description = <<>>
    /\ configFile = <<>>
    /\ configModified = 0
    /\ target = Map(ZeroOf(RoundType))
    /\ proc = "running"
    /\ last = [op |-> "Target", err |-> NoErr, io |-> {}, srcs |-> <<>>]
    /\ call = NoCall
    /\ args = <<>>
    /\ environ = <<>>
    /\ file = [now |-> 1, at |-> [q \in {UserFile} |-> Absent]]

\* the application assigns fields of its target
RoundAssign ==
    /\ proc = "running"
    /\ \E t \in RoundTargets : t # target /\ target' = t
    /\ last' = [op |-> "assign", err |-> NoErr, io |-> {}, srcs |-> <<>>]
    /\ UNCHANGED <<settings, description, configFile, configModified>>
    /\ UNCHANGED <<worldVars, proc, call, syncVars>>

RoundSave ==
    /\ proc = "running"
    /\ \E createOK \in BOOLEAN :
          LET r == save(St, RoundType, createOK) IN
          /\ r.st.fs.now <= MaxRoundTime
          /\ Returned("Save", [proc |-> "running", st |-> r.st, err |-> r.err, srcs |-> <<>>])
    /\ UNCHANGED <<settings, description, args, environ, call>>
    /\ UNCHANGED syncVars

RoundLoad ==
    /\ proc = "running"
    /\ \E createOK \in BOOLEAN :
          LET r == load(settings, description, RoundType, args, environ, St, <<>>, createOK)
          IN /\ r.st.fs.now <= MaxRoundTime
             /\ Returned("Load", r)
    /\ UNCHANGED <<settings, description, args, environ, call>>
    /\ UNCHANGED syncVars

NextRound == RoundAssign \/ RoundSave \/ RoundLoad

SpecRound == InitRound /\ [][NextRound]_vars

\* C17: with no argument and no variable set, a Load that follows a Save of
\* the target returns with every field of the target as it was before the
\* Save.
C17_SaveLoadRoundTrip ==
    [][(RoundLoad /\ last.op = "Save" /\ last.err = NoErr) =>
          proc' = "running" /\ target' = target]_vars

(***************************************************************************)
(* Reload: what it returns                                                 *)
(***************************************************************************)
\* C18: a Reload made before any config path is established is a no-op: it
\* changes neither the target nor the controller, makes no file access, and
\* reports no error.
C18_ReloadWithoutPath ==
    [][((LatestReload \/ CallbackReload) /\ configFile = <<>>) =>
          /\ target' = target
          /\ settings' = settings
          /\ configFile' = configFile
          /\ configModified' = configModified
          /\ file' = file
          /\ last'.io = {}
          /\ last'.err = NoErr]_vars

\* the file at the config path, and what Reload finds there
ConfigFileNow == fileAt(file, configFile)

Unchanged == ConfigFileNow.exists /\ ConfigFileNow.mtime = configModified

CannotRead == ~(ConfigFileNow.exists /\ ConfigFileNow.readable)

NotJSON == ConfigFileNow.data.kind \notin {"map", "null"}

NoKeys == ConfigFileNow.data.kind = "null" \/ DOMAIN ConfigFileNow.data.m = {}

\* C19 as claimed: Reload returns an error when the config path is empty,
\* when the file is unchanged, when it cannot be read, when it holds no JSON,
\* and when no target is set; it returns nil when the file was read, parsed
\* and assigned.
C19_ReloadErrors ==
    [][(LatestReload /\ proc' = "running") =>
          /\ configFile = <<>> => last'.err # NoErr
          /\ (configFile # <<>> /\ Unchanged) => last'.err # NoErr
          /\ (configFile # <<>> /\ CannotRead) => last'.err # NoErr
          /\ (configFile # <<>> /\ ~Unchanged /\ ~CannotRead /\ NotJSON) => last'.err # NoErr
          /\ target = NoTarget => last'.err # NoErr
          /\ (target # NoTarget /\ last'.srcs # <<>>
                /\ target' = Map(unmarshal(TargetType, target.m, last'.srcs[1]).t)
                /\ ~unmarshal(TargetType, target.m, last'.srcs[1]).err)
             => last'.err = NoErr]_vars

\* C19, amended: the error of a Reload that returns is decided in this order:
\* an empty path, an unchanged file, a file that cannot be read, content that
\* is no JSON; then a file with no key gives nil, with or without a target; a
\* file with keys gives an error when no target is set, the error of the
\* assignment when a value cannot be assigned, and nil otherwise.
C19_ReloadErrorsByCase ==
    [][(LatestReload /\ proc' = "running") =>
          last'.err =
             IF configFile = <<>> THEN <<"errEmptyConfig">>
             ELSE IF Unchanged THEN <<"errNoChanges">>
             ELSE IF CannotRead THEN <<"read">>
             ELSE IF NotJSON THEN <<"parse">>
             ELSE IF NoKeys THEN NoErr
             ELSE IF target = NoTarget THEN <<"errNilTarget">>
             ELSE IF unmarshal(TargetType, target.m,
                               cast(TargetType, ConfigFileNow.data.m, {}).m).err
                  THEN <<"unmarshal">>
             ELSE NoErr]_vars

\* a Reload with no target set read a file that holds no key and returned nil
C19_Witness ==
    /\ last.op = "Reload"
    /\ last.err = NoErr
    /\ "parse" \in last.io
    /\ target = NoTarget
    /\ configFile # <<>>
    /\ IsLatest

(***************************************************************************)
(* Load: the path of the file it creates                                   *)
(***************************************************************************)
\* the first name Load keeps: the first non-empty name supplied, or the
\* default name when none is supplied
FirstName(names) == Head(Append(dropEmpty(names), DefaultName))

\* C20: when no candidate config file can be loaded, Load sets the config
\* path to the first name (or the default name) joined onto the last, user
\* space search path, unless that name is absolute, and then the config path
\* is the absolute name itself; the target is saved to that path.
C20_FallbackPath ==
    [][\A names \in StageNames :
          (LoadNamed(names) /\ proc' = "running" /\ FileStageFailed(last')) =>
             /\ configFile' = IF IsAbs(FirstName(names)) THEN FirstName(names)
                              ELSE Join(Paths[Len(Paths)], FirstName(names))
             /\ "write" \in last'.io =>
                   fileAt(file', configFile').data = encodeTarget(target, TargetType)]_vars

(***************************************************************************)
(* Load: when it creates the config file                                   *)
(***************************************************************************)
\* a file exists at one of the paths Load searches for these names
ExistingCandidate(names) ==
    LET cands == candidates(Append(dropEmpty(names), DefaultName))
    IN \E i \in 1..Len(cands) : fileAt(file, cands[i]).exists

\* C21: Load creates or writes a config file only when no file exists at any
\* searched path: a Load that finds a file, whatever its content and whether
\* or not it changed since the last read, creates no file and overwrites none.
C21_CreatesOnlyWhenNoFile ==
    [][\A names \in StageNames :
          (LoadNamed(names) /\ ExistingCandidate(names)) =>
             /\ file' = file
             /\ "create" \notin last'.io]_vars

(***************************************************************************)
(* The Gonf variant that registers with Env and Option (src/multiconf.go)  *)
(***************************************************************************)
TrimSuffix(s, p) == IF HasSuffix(s, p) THEN SubSeq(s, 1, Len(s) - Len(p)) ELSE s

\* a Gonf's registrations: envs of [Key, Name], long and short of
\* [Greedy, Flag, Key], and the number of options kept for help
NoRegistrations == [envs |-> <<>>, long |-> <<>>, short |-> <<>>, options |-> 0]

gonfEnv(g, key, name) ==
    IF Len(key) = 0 \/ Len(name) = 0 THEN g
    ELSE [g EXCEPT !.envs = Append(@, [Key |-> key, Name |-> name])]

RECURSIVE gonfFlags(_, _, _)
gonfFlags(g, key, flags) ==
    IF flags = <<>> THEN g
    ELSE LET flag == Head(flags)
             p == [Greedy |-> HasSuffix(flag, <<":">>),
                   Flag |-> TrimSuffix(TrimPrefix(TrimPrefix(flag, Dash), Dash), <<":">>),
                   Key |-> key]
         IN gonfFlags(IF Len(p.Flag) = 1 THEN [g EXCEPT !.short = Append(@, p)]
                      ELSE IF Len(p.Flag) > 1 THEN [g EXCEPT !.long = Append(@, p)]
                      ELSE g,
                      key, Tail(flags))

gonfOption(g, key, flags) ==
    IF Len(key) = 0 THEN g
    ELSE LET r == gonfFlags(g, key, flags) IN
         IF r.long = g.long /\ r.short = g.short THEN r
         ELSE [r EXCEPT !.options = @ + 1]

\* Gonf.set replaces whatever is no map on the way to the key
RECURSIVE gonfSetKeys(_, _, _)
gonfSetKeys(cursor, keys, value) ==
    LET k == Head(keys) IN
    IF Len(keys) = 1 THEN Put(cursor, k, value)
    ELSE LET sub == IF k \in DOMAIN cursor /\ cursor[k].kind = "map"
                    THEN cursor[k].m ELSE EmptyMap
         IN Put(cursor, k, Map(gonfSetKeys(sub, Tail(keys), value)))

gonfSet(cursor, key, value) == gonfSetKeys(cursor, Split(key, "."), value)

RECURSIVE gonfEnvLoop(_, _, _, _)
gonfEnvLoop(envs, e, k, acc) ==
    IF k > Len(envs) THEN acc
    ELSE IF Len(Getenv(e, envs[k].Name)) > 0
         THEN gonfEnvLoop(envs, e, k + 1,
                          gonfSet(acc, envs[k].Key, Str(Getenv(e, envs[k].Name))))
    ELSE gonfEnvLoop(envs, e, k + 1, acc)

gonfParseEnvs(g, e) == gonfEnvLoop(g.envs, e, 1, EmptyMap)

\* The progress of Gonf.parseOptions is [i, m, skip, st]: the index into
\* os.Args (1-based, the program's name first), the map, the skip flag, and
\* "run" or "exit".
gonfPut(ps, key, value) == [ps EXCEPT !.m = gonfSet(ps.m, key, value)]

\* `for _, long := range self.long`
RECURSIVE gonfLongLoop(_, _, _, _)
gonfLongLoop(long, argv, k, ps) ==
    IF k > Len(long) THEN ps
    ELSE LET arg == argv[ps.i]
             l == long[k]
             parts == Split(arg, "=")
         IN IF ~HasPrefix(arg, DashDash \o l.Flag) THEN gonfLongLoop(long, argv, k + 1, ps)
            ELSE IF Len(parts) = 2
                 THEN gonfLongLoop(long, argv, k + 1,
                         gonfPut(ps, l.Key, IF Len(parts[2]) > 0 THEN Str(parts[2])
                                            ELSE Bool(TRUE)))
            ELSE IF takesNext(argv, ps.i, l.Greedy)
                 THEN gonfLongLoop(long, argv, k + 1,
                         [gonfPut(ps, l.Key, Str(argv[ps.i + 1])) EXCEPT !.skip = TRUE])
            ELSE gonfLongLoop(long, argv, k + 1, gonfPut(ps, l.Key, Bool(TRUE)))

\* `for idc, c := range s` and `for _, short := range self.short`
RECURSIVE gonfShortLoop(_, _, _, _, _, _)
gonfShortLoop(short, argv, a, ci, k, ps) ==
    IF ci > Len(a) THEN ps
    ELSE IF k > Len(short) THEN gonfShortLoop(short, argv, a, ci + 1, 1, ps)
    ELSE LET sh == short[k] IN
         IF <<a[ci]>> # sh.Flag THEN gonfShortLoop(short, argv, a, ci, k + 1, ps)
         ELSE IF ci = Len(a)
              THEN IF takesNext(argv, ps.i, sh.Greedy)
                   THEN gonfShortLoop(short, argv, a, ci + 1, 1,
                           [gonfPut(ps, sh.Key, Str(argv[ps.i + 1])) EXCEPT !.skip = TRUE])
                   ELSE gonfShortLoop(short, argv, a, ci, k + 1,
                           [ps EXCEPT !.m = Put(ps.m, sh.Key, Bool(TRUE))])
         ELSE LET rest == gonfPut(ps, sh.Key, Str(SubSeq(a, ci + 1, Len(a)))) IN
              IF sh.Greedy THEN gonfShortLoop(short, argv, a, ci + 1, 1, rest)
              ELSE IF \E j \in 1..Len(short) : <<a[ci + 1]>> = short[j].Flag
                   THEN gonfShortLoop(short, argv, a, ci, k + 1,
                                      gonfPut(rest, sh.Key, Bool(TRUE)))
              ELSE gonfShortLoop(short, argv, a, ci, k + 1, rest)

RECURSIVE gonfOptionsLoop(_, _, _, _)
gonfOptionsLoop(g, desc, argv, ps) ==
    IF ps.i > Len(argv) THEN ps
    ELSE LET arg == argv[ps.i]
             step(q) == gonfOptionsLoop(g, desc, argv, [q EXCEPT !.i = ps.i + 1])
         IN IF Len(desc) > 0 /\ arg \in HelpTokens THEN [ps EXCEPT !.st = "exit"]
            ELSE IF ps.skip \/ ~HasPrefix(arg, Dash) \/ Len(arg) = 1
                 THEN step([ps EXCEPT !.skip = FALSE])
            ELSE IF arg = DashDash THEN ps
            ELSE IF HasPrefix(arg, DashDash) THEN step(gonfLongLoop(g.long, argv, 1, ps))
            ELSE step(gonfShortLoop(g.short, argv, TrimPrefix(arg, Dash), 1, 1, ps))

gonfParseOptions(g, desc, argv) ==
    gonfOptionsLoop(g, desc, argv, [i |-> 1, m |-> EmptyMap, skip |-> FALSE, st |-> "run"])

\* Gonf.loadConfig: the first path whose file can be read and holds JSON
RECURSIVE gonfLoadConfig(_, _)
gonfLoadConfig(ps, fs) ==
    IF ps = <<>> THEN EmptyMap
    ELSE LET f == fileAt(fs, Head(ps)) IN
         IF f.exists /\ f.readable /\ decodeFile(f.data).err = NoErr
         THEN decodeFile(f.data).vars
         ELSE gonfLoadConfig(Tail(ps), fs)

\* the fields of the configuration that Gonf.cast matches with key k
gonfMatches(type, k) ==
    {i \in 1..Len(type) :
        (type[i].Tag = <<>> /\ type[i].Name = k) \/ (type[i].Tag # <<"-">> /\ k = type[i].Tag)}

\* what Gonf.cast leaves at a key matched with a field of kind `kind`: the
\* results of ParseBool and ParseFloat are stored with their errors dropped
gonfConvert(kind, v) ==
    IF v.kind # "string" THEN v
    ELSE IF kind = "bool"
         THEN (IF ParseBool(v.s).ok THEN ParseBool(v.s).v ELSE Bool(FALSE))
    ELSE IF isNumeric(kind)
         THEN (IF ParseFloat(v.s).ok THEN ParseFloat(v.s).v ELSE Num(0))
    ELSE v

\* [panic, m]: reflect.TypeOf(nil).Kind() panics on a null of a matched key
gonfCast(type, m) ==
    [panic |-> \E k \in DOMAIN m : gonfMatches(type, k) # {} /\ m[k].kind = "null",
     m |-> [k \in DOMAIN m |->
              IF gonfMatches(type, k) = {} THEN m[k]
              ELSE LET i == CHOOSE j \in gonfMatches(type, k) :
                                \A h \in gonfMatches(type, k) : j <= h
                   IN gonfConvert(type[i].Kind, m[k])]]

\* Gonf.merge is Config.merge: each map written over the ones before it
gonfMerge(maps) == merge(maps)

\* [panic, tgt]
gonfTo(tgt, type, data) ==
    LET combo == gonfMerge(data)
        c == gonfCast(type, combo)
    IN IF tgt = NoTarget THEN [panic |-> FALSE, tgt |-> tgt]
       ELSE IF c.panic THEN [panic |-> TRUE, tgt |-> tgt]
       ELSE [panic |-> FALSE, tgt |-> Map(unmarshal(type, tgt.m, c.m).t)]

\* the package's paths, then the paths given to Load
GonfPaths == <<Join(Paths[1], DefaultName), UserFile>>

\* [proc, tgt, srcs]: srcs are the maps in the order Load appends them
gonfLoad(g, desc, type, argv, e, tgt, fs, p) ==
    LET opts == gonfParseOptions(g, desc, argv)
        maps == <<opts.m, gonfParseEnvs(g, e), gonfLoadConfig(GonfPaths \o p, fs)>>
        r == gonfTo(tgt, type, maps)
    IN IF opts.st = "exit" THEN [proc |-> "exited", tgt |-> tgt, srcs |-> <<>>]
       ELSE IF r.panic THEN [proc |-> "panicked", tgt |-> tgt, srcs |-> maps]
       ELSE [proc |-> "running", tgt |-> r.tgt, srcs |-> maps]

(***************************************************************************)
(* SpecGonf: Load of the Gonf variant, called again and again while        *)
(* another process edits the config file. The registrations are            *)
(*   Env("n", "", "E"); Env("x.e", "", "G")                                *)
(*   Option("n", "", "-n", "--name"); Option("K", "", "-k:")               *)
(***************************************************************************)
MaxGonfTime == 3

GonfRegs ==
    gonfOption(
        gonfOption(
            gonfEnv(gonfEnv(NoRegistrations, <<"n">>, <<"E">>), <<"x", ".", "e">>, <<"G">>),
            <<"n">>, << <<"-", "n">>, <<"-", "-", "n", "a", "m", "e">> >>),
        <<"K">>, << <<"-", "k", ":">> >>)

GonfArgv ==
    { << <<"a", "p", "p">> >>,
      << <<"a", "p", "p">>, <<"-", "n">>, <<"c">> >>,
      << <<"a", "p", "p">>, <<"-", "-", "n", "a", "m", "e", "=", "c">>, <<"-", "k", "7">> >>,
      << <<"a", "p", "p">>, <<"-", "h">> >> }

GonfEnviron ==
    { <<>>,
      [v \in {<<"E">>, <<"G">>} |-> IF v = <<"E">> THEN <<"e">> ELSE <<"1">>] }

GonfData ==
    { ConcFile(<<"g">>, 1),
      Map([k \in {<<"n">>, <<"x">>} |->
              IF k = <<"n">> THEN Str(<<"f">>)
              ELSE Map([j \in {<<"e">>} |-> Bool(FALSE)])]),
      Invalid }

InitGonf ==
    /\ Sequential
    /\ settings = GonfRegs
    /\ description \in {<<>>, <<"d">>}
    /\ configFile = <<>>
    /\ configModified = 0
    /\ target = Map(ZeroOf(TargetType))
    /\ proc = "running"
    /\ last = [op |-> "Option", err |-> NoErr, io |-> {}, srcs |-> <<>>]
    /\ call = Variant("gonf")
    /\ args \in GonfArgv
    /\ environ \in GonfEnviron
    /\ file = [now |-> 1, at |-> [q \in {UserFile} |-> Absent]]

GonfLoad ==
    /\ proc = "running"
    /\ LET r == gonfLoad(settings, description, TargetType, args, environ, target, file, <<>>)
       IN /\ target' = r.tgt
          /\ proc' = r.proc
          /\ last' = [op |-> "Load", err |-> NoErr, io |-> {}, srcs |-> r.srcs]
    /\ UNCHANGED <<settings, description, configFile, configModified, file, args, environ, call>>
    /\ UNCHANGED syncVars

GonfEdit == EditFileOf({UserFile}, GonfData, MaxGonfTime)

NextGonf == GonfLoad \/ GonfEdit

SpecGonf == InitGonf /\ [][NextGonf]_vars

\* the fields of the target that hold a string
StringLeaves == {l \in Leaves : l.f.Kind = "string"}

\* C22: Load of the Gonf variant gives a key the value of the command line
\* over the value of the environment, and the value of the environment over
\* the value of the file.
C22_GonfPrecedence ==
    [][(GonfLoad /\ proc' = "running") =>
          \A l \in StringLeaves :
             GetAt(target'.m, l.path) =
                ByPrecedence(<<last'.srcs[1], last'.srcs[2], last'.srcs[3]>>,
                             l, GetAt(target.m, l.path))]_vars

(***************************************************************************)
(* SpecCast: cast applied to one map, for a target whose embedded struct   *)
(* declares fields that the outer struct declares too:                     *)
(*   type Inner struct {                                                   *)
(*       Implicit bool                                                     *)
(*       Tagged   int `json:"implicit"`                                    *)
(*       Conflict int `json:"conflict"`                                    *)
(*       Named    int                                                      *)
(*   }                                                                     *)
(*   type Outer struct {                                                   *)
(*       Inner                                                             *)
(*       Conflict string `json:"conflict"`                                 *)
(*       Named    bool                                                     *)
(*       Number   int    `json:"number"`                                   *)
(*   }                                                                     *)
(***************************************************************************)
MaxCastKeys == 3

InnerType ==
    << Field(<<"Implicit">>, <<>>, "bool", FALSE, <<>>),
       Field(<<"Tagged">>, <<"implicit">>, "int", FALSE, <<>>),
       Field(<<"Conflict">>, <<"conflict">>, "int", FALSE, <<>>),
       Field(<<"Named">>, <<>>, "int", FALSE, <<>>) >>

OuterType ==
    << Field(<<"Inner">>, <<>>, "struct", TRUE, InnerType),
       Field(<<"Conflict">>, <<"conflict">>, "string", FALSE, <<>>),
       Field(<<"Named">>, <<>>, "bool", FALSE, <<>>),
       Field(<<"Number">>, <<"number">>, "int", FALSE, <<>>) >>

CastKeys ==
    {<<"conflict">>, <<"Conflict">>, <<"Named">>, <<"implicit">>, <<"Implicit">>,
     <<"number">>, <<"other">>}

CastValues == {Str(<<"4", "2">>), Str(<<"1">>), Str(<<"z">>), Bool(TRUE)}

CastMaps ==
    UNION {[ks -> CastValues] :
              ks \in {x \in SUBSET CastKeys : Cardinality(x) <= MaxCastKeys}}

InitCast ==
    /\ New
    /\ args = <<>>
    /\ environ = <<>>
    /\ file = [now |-> 1, at |-> <<>>]
    /\ \E m \in CastMaps : call = [op |-> "cast", m |-> m, done |-> FALSE, out |-> m]

\* c.cast(&outer, m, map[string]interface{}{})
Cast ==
    /\ call.op = "cast"
    /\ ~call.done
    /\ call' = [call EXCEPT !.done = TRUE, !.out = cast(OuterType, call.m, {}).m]
    /\ UNCHANGED <<ctlVars, worldVars, proc, last>>
    /\ UNCHANGED syncVars

NextCast == Cast

SpecCast == InitCast /\ [][NextCast]_vars

\* the fields a struct level declares itself that key k matches: the ones
\* tagged k, and when there is none the ones named k
Explicit(type, k) ==
    LET tagged == {i \in 1..Len(type) : type[i].Tag = k}
        named == {i \in 1..Len(type) : type[i].Name = k}
    IN IF tagged # {} THEN tagged ELSE named

\* the value a field of kind `kind` makes of v
ConvertedTo(kind, v) ==
    IF v.kind = "string" /\ kind = "bool" /\ v.s \in TrueStrings THEN Bool(TRUE)
    ELSE IF v.kind = "string" /\ kind = "bool" /\ v.s \in FalseStrings THEN Bool(FALSE)
    ELSE IF v.kind = "string" /\ kind = "int" /\ ParseFloat(v.s).ok THEN ParseFloat(v.s).v
    ELSE v

\* C23: cast converts a key that matches (by tag, else by name) a field the
\* struct level declares itself by the type of that field only; a field of an
\* anonymous embedded struct decides only the keys that matched no such
\* field. Key `conflict`, a string field outside and an int field inside,
\* keeps its string "42".
C23_ExplicitFieldFirst ==
    (call.op = "cast" /\ call.done) =>
       /\ DOMAIN call.out = DOMAIN call.m
       /\ \A k \in DOMAIN call.m :
             call.out[k] =
                IF Explicit(OuterType, k) # {}
                THEN ConvertedTo(OuterType[CHOOSE i \in Explicit(OuterType, k) : TRUE].Kind,
                                 call.m[k])
                ELSE IF Explicit(InnerType, k) # {}
                THEN ConvertedTo(InnerType[CHOOSE i \in Explicit(InnerType, k) : TRUE].Kind,
                                 call.m[k])
                ELSE call.m[k]
       /\ (<<"conflict">> \in DOMAIN call.m /\ call.m[<<"conflict">>] = Str(<<"4", "2">>))
             => call.out[<<"conflict">>] = Str(<<"4", "2">>)

\* cast has converted `implicit` by the embedded struct's field and has left
\* the "42" of `conflict` a string
C23_Witness ==
    /\ call.op = "cast" /\ call.done
    /\ <<"conflict">> \in DOMAIN call.m /\ call.m[<<"conflict">>] = Str(<<"4", "2">>)
    /\ call.out[<<"conflict">>] = Str(<<"4", "2">>)
    /\ <<"implicit">> \in DOMAIN call.m /\ call.m[<<"implicit">>] = Str(<<"4", "2">>)
    /\ call.out[<<"implicit">>] = Num(42)

(***************************************************************************)
(* The recorded modification time                                          *)
(***************************************************************************)
\* C24: the recorded modification time of the config file changes only in a
\* call that read the file and parsed it: after a failure to read it or to
\* parse it, it is what it was before the call.
C24_ModTimeOnlyAfterParse ==
    [][configModified' # configModified =>
          LET f == fileAt(file, configFile') IN
          /\ f.exists /\ f.readable
          /\ decodeFile(f.data).err = NoErr]_vars

\* a target is set, and the config file is among the paths a Load with these
\* names searches, holds JSON, and has the modification time recorded when it
\* was last read
UnchangedSinceRead(names) ==
    LET cands == candidates(Append(dropEmpty(names), DefaultName))
    IN /\ \E i \in 1..Len(cands) : cands[i] = configFile
       /\ fileAt(file, configFile).exists
       /\ fileAt(file, configFile).mtime = configModified
       /\ decodeFile(fileAt(file, configFile).data).err = NoErr
       /\ target # NoTarget

\* C25: a Load made while the config file is unchanged since its last read
\* parses no file and takes nothing from the environment, reports "no
\* changes" and no failure, and leaves the config path and the recorded
\* modification time as they were.
C25_UnchangedLoadSkips ==
    [][\A names \in StageNames :
          (LoadNamed(names) /\ proc' = "running" /\ UnchangedSinceRead(names)) =>
             /\ "parse" \notin last'.io
             /\ Len(last'.srcs) = 3 => last'.srcs[2] = EmptyMap
             /\ last'.err = <<"errNoChanges">>
             /\ configFile' = configFile
             /\ configModified' = configModified]_vars

(***************************************************************************)
(* SpecTokens: parseOptions on command lines of plain tokens and of one    *)
(* option spelling registered twice, with and without a description:       *)
(*   Add("a", "", "", "--o", "-p"); Add("b", "", "", "--o", "-p")          *)
(*   Add("e", "", "", "-e:")                                               *)
(***************************************************************************)
MaxTokens == 3

TokenRegs ==
    Registry(<< << <<"a">>, <<>>, << <<"-", "-", "o">>, <<"-", "p">> >> >>,
                << <<"b">>, <<>>, << <<"-", "-", "o">>, <<"-", "p">> >> >>,
                << <<"e">>, <<>>, << <<"-", "e", ":">> >> >> >>)

Tokens ==
    { <<"h", "e", "l", "p">>, <<"x">>, <<"y">>, <<"-">>, <<"-", "p">>,
      <<"-", "-", "o">>, <<"-", "-", "o", "=", "x">>, <<"-", "e">> }

InitTokens ==
    /\ Sequential
    /\ settings = TokenRegs
    /\ description \in {<<>>, <<"d">>}
    /\ configFile = <<>>
    /\ configModified = 0
    /\ target = NoTarget
    /\ proc = "running"
    /\ last = [op |-> "Add", err |-> NoErr, io |-> {}, srcs |-> <<>>]
    /\ args = <<>>
    /\ environ = <<>>
    /\ file = [now |-> 1, at |-> <<>>]
    /\ call = NoCall

\* one more token on the command line
PushToken ==
    /\ Len(args) < MaxTokens
    /\ \E tok \in Tokens : args' = Append(args, tok)
    /\ call' = NoCall
    /\ UNCHANGED <<ctlVars, environ, file, proc, last>>
    /\ UNCHANGED syncVars

NextTokens == PushToken \/ ParseOptions

SpecTokens == InitTokens /\ [][NextTokens]_vars

\* a token that is no option: it does not start with "-", or is a bare "-"
Plain(tok) == Len(tok) = 1 \/ ~HasPrefix(tok, Dash)

Without(argv, i) == SubSeq(argv, 1, i - 1) \o SubSeq(argv, i + 1, Len(argv))

Parsed == call.op = "parseOptions" /\ call.out.st = "run"

\* the spellings of the option registered for both `a` and `b`
Twice == {<<"-", "-", "o">>, <<"-", "-", "o", "=", "x">>, <<"-", "p">>}

\* C26: a token that is no option and is not taken as the value of the flag
\* before it (it is the first token, or the token before it is no option
\* either) adds nothing to the map of the command line: the map is the one of
\* the command line without that token. This holds with and without a
\* description, the token `help` included. (Command lines with the option
\* that is registered twice before the token are left to C27.)
C26_PlainTokensSkipped ==
    Parsed =>
       \A i \in 1..Len(call.argv) :
          (/\ Plain(call.argv[i])
           /\ i = 1 \/ Plain(call.argv[i - 1])
           /\ \A j \in 1..(i - 1) : call.argv[j] \notin Twice) =>
             LET r == parseOptions(settings, description, Without(call.argv, i))
             IN r.st = "run" => r.m = call.out.m

\* C27: an option registered for two settings, met once on the command line,
\* gives both settings the same value, in the form `--opt=value` and in the
\* forms `--opt value` and `-o value` alike, and takes at most the one token
\* after it as the value.
C27_DuplicateOptionSameValue ==
    (Parsed /\ Len(call.argv) >= 1 /\ call.argv[1] \in Twice
        /\ \A i \in 2..Len(call.argv) : Plain(call.argv[i]) /\ call.argv[i] # <<"h", "e", "l", "p">>) =>
       /\ <<"a">> \in DOMAIN call.out.m /\ <<"b">> \in DOMAIN call.out.m
       /\ call.out.m[<<"a">>] = call.out.m[<<"b">>]
       /\ Len(call.argv) > 2 =>
             call.out.m = parseOptions(settings, description, SubSeq(call.argv, 1, 2)).m

(***************************************************************************)
(* SpecKeep: Load, then Reloads while another process edits the config     *)
(* file. The command line and the environment stay what they were at the   *)
(* start; the registrations are those of SpecStages.                       *)
(***************************************************************************)
MaxKeepTime == 3

KeepArgv == { <<>>, << <<"-", "n">>, <<"c">> >> }

KeepEnv == { <<>>, [v \in {<<"E">>, <<"F">>} |-> IF v = <<"E">> THEN <<"e">> ELSE <<"7">>] }

KeepData == { ConcFile(<<"f">>, 2), ConcFile(<<"g">>, 1) }

InitKeep ==
    /\ Sequential
    /\ settings = StageRegs
    /\ description = <<>>
    /\ configFile = <<>>
    /\ configModified = 0
    /\ target = Map(ZeroOf(TargetType))
    /\ proc = "running"
    /\ last = [op |-> "Target", err |-> NoErr, io |-> {}, srcs |-> <<>>]
    /\ call = NoCall
    /\ args \in KeepArgv
    /\ environ \in KeepEnv
    /\ \E f \in {Absent, FileOf(1, TRUE, ConcFile(<<"g">>, 1))} :
          file = [now |-> 1, at |-> [q \in {UserFile} |-> f]]

KeepLoad == LoadOf({<<>>}, MaxKeepTime)

KeepReload == Reload

KeepEdit == EditFileOf({UserFile}, KeepData, MaxKeepTime)

NextKeep == KeepLoad \/ KeepReload \/ KeepEdit

SpecKeep == InitKeep /\ [][NextKeep]_vars

\* C28: once Load has returned, every field whose key the command line or the
\* environment supplies holds the value of the command line, else of the
\* environment, whatever the Reloads since have read from the file.
C28_PrecedenceKept ==
    (configFile # <<>> /\ proc = "running") =>
       LET opts == parseOptions(settings, description, args).m
           envs == parseEnvs(settings, environ).m
       IN \A l \in Leaves :
             (Supplies(opts, l.key) \/ Supplies(envs, l.key)) =>
                GetAt(target.m, l.path) =
                   ByPrecedence(<<opts, envs>>, l, GetAt(target.m, l.path))

(***************************************************************************)
(* SpecPath: one goroutine makes the first Load of a controller, step by   *)
(* step as in SpecConc, while the goroutine "watcher" calls Reload again   *)
(* and again. The steps of the watcher are the critical sections of        *)
(* ConfigFile, readFile and `to`, each under the controller's lock.        *)
(***************************************************************************)
PathGoroutines == {"loader", "watcher"}

Watcher == pc["watcher"]

InitPath ==
    /\ settings = <<>>
    /\ description = <<>>
    /\ configFile = <<>>
    /\ configModified = 0
    /\ target = Map(ZeroOf(TargetType))
    /\ proc = "running"
    /\ last = [op |-> "new", err |-> NoErr, io |-> {}, srcs |-> <<>>]
    /\ call = NoCall
    /\ args = <<>>
    /\ environ = ConcEnv
    /\ \E f \in {Absent, FileOf(1, TRUE, ConcFile(<<"g">>, 1))},
          b \in {Absent, FileOf(1, TRUE, Invalid)} :
          file = [now |-> 1,
                  at |-> [q \in {Join(Paths[1], DefaultName), UserFile} |->
                             IF q = UserFile THEN f ELSE b]]
    /\ mu = Unlocked
    /\ targetMu = Nobody
    /\ pc = [t \in PathGoroutines |-> Idle]

\* the controller's first Load
FirstLoadBegin == configFile = <<>> /\ LoadBegin

\* Reload: c.ConfigFile() under c.mu.RLock(); an empty path is errEmptyConfig
WatchConfigFile ==
    /\ Pos("watcher", "idle")
    /\ proc = "running"
    /\ mu.w = Nobody
    /\ Goto("watcher", [at |-> IF configFile = <<>> THEN "returned" ELSE "readFile",
                        cf |-> configFile, data |-> <<>>])
    /\ UNCHANGED <<ctlVars, worldVars, proc, last, call, mu, targetMu>>

\* Reload returns
WatchReturn ==
    /\ Pos("watcher", "returned")
    /\ Goto("watcher", Idle)
    /\ UNCHANGED <<ctlVars, worldVars, proc, last, call, mu, targetMu>>

\* Reload: c.readFile() under c.mu.Lock(), on the path the controller holds now
WatchReadFile ==
    /\ Pos("watcher", "readFile")
    /\ mu = Unlocked
    /\ LET r == readFile(St) IN
          /\ configModified' = r.st.cm
          /\ Goto("watcher",
                  IF r.err = NoErr /\ Cardinality(DOMAIN r.vars) > 0
                  THEN [Watcher EXCEPT !.at = "to", !.data = <<r.vars>>]
                  ELSE [Watcher EXCEPT !.at = "returned"])
    /\ UNCHANGED <<settings, description, configFile, target>>
    /\ UNCHANGED <<worldVars, proc, last, call, mu, targetMu>>

\* Reload: c.to(v) under c.mu.Lock() and the target's lock
WatchTo ==
    /\ Pos("watcher", "to")
    /\ mu = Unlocked
    /\ targetMu = Nobody
    /\ LET r == to(St, TargetType, Watcher.data) IN
          /\ target' = r.st.tgt
          /\ proc' = IF r.panic THEN "panicked" ELSE proc
    /\ Goto("watcher", [Watcher EXCEPT !.at = "returned"])
    /\ UNCHANGED <<settings, description, configFile, configModified>>
    /\ UNCHANGED <<worldVars, last, call, mu, targetMu>>

NextPath ==
    \/ FirstLoadBegin \/ LoadOptions \/ PfLock \/ PfSet \/ RfLock \/ RfBody
    \/ FbLock \/ FbSet \/ SaveRLock \/ SaveBody \/ LoadEnvs
    \/ ToLock \/ ToTargetLock \/ ToAssign \/ ToReturn
    \/ WatchConfigFile \/ WatchReturn \/ WatchReadFile \/ WatchTo

SpecPath == InitPath /\ [][NextPath]_vars

\* the file at path p can be read and holds JSON
Loadable(p) ==
    LET f == fileAt(file, p) IN f.exists /\ f.readable /\ decodeFile(f.data).err = NoErr

FallbackPath == Join(Paths[Len(Paths)], DefaultName)

\* C29: the config path another goroutine gets from the controller, also
\* while Load runs, is empty, the path of a file that loads, or the fallback
\* path, never a candidate that failed to load; and Load reaches its fallback
\* only when no candidate loads, whatever a concurrent Reload does.
C29_PathSettled ==
    /\ ~Pos("watcher", "idle") =>
          Watcher.cf = <<>> \/ Watcher.cf = FallbackPath \/ Loadable(Watcher.cf)
    /\ Pos("loader", "fallback") =>
          \A i \in 1..Len(candidates(Loader.names)) :
             ~Loadable(candidates(Loader.names)[i])

(***************************************************************************)
(* Load of the variant with Callback (src/config.go)                       *)
(***************************************************************************)
\* parseFiles tries the names path by path, and takes a readfile that
\* returns no error, an unchanged file included, as a file found
RECURSIVE tryCallbackFiles(_, _, _, _, _)
tryCallbackFiles(st, type, filenames, cands, createOK) ==
    IF cands = <<>>
    THEN [st |-> save([st EXCEPT !.cf = Join(Paths[Len(Paths)], filenames[1])],
                      type, createOK).st,
          vars |-> EmptyMap]
    ELSE LET r == readfile([st EXCEPT !.cf = Head(cands)]) IN
         IF r.err = NoErr THEN [st |-> r.st, vars |-> r.vars]
         ELSE tryCallbackFiles(r.st, type, filenames, Tail(cands), createOK)

parseFilesCallback(st, type, filenames, createOK) ==
    IF st.cf # <<>> THEN [st |-> readfile(st).st, vars |-> readfile(st).vars]
    ELSE tryCallbackFiles(st, type, filenames,
            [i \in 1..(Len(Paths) * Len(filenames)) |->
                Join(Paths[((i - 1) \div Len(filenames)) + 1],
                     filenames[((i - 1) % Len(filenames)) + 1])],
            createOK)

\* Load up to its call of `to`: [proc, st, data]. The names registered here
\* hold no ".", so that set assigns m[name] as in the latest variant.
loadCallbackSources(regs, desc, type, argv, e, st, filenames, createOK) ==
    LET opts == parseOptions(regs, desc, argv)
        files == parseFilesCallback(st, type,
                    Append(dropEmpty(filenames), <<"app.json">>), createOK)
        envs == parseEnvs(regs, e)
    IN IF opts.st = "exit" THEN [proc |-> "exited", st |-> st, data |-> <<>>]
       ELSE [proc |-> "running", st |-> files.st, data |-> <<files.vars, envs.m, opts.m>>]

(***************************************************************************)
(* SpecLoadCallback: Load of the variant with Callback, step by step, made *)
(* by the goroutine "caller", while the goroutine "app" asks the           *)
(* controller for ConfigFile. The target is a locker and a callbacker; its *)
(* Callback locks the target and then either calls ConfigFile on the       *)
(* controller or leaves the controller alone.                              *)
(***************************************************************************)
LcGoroutines == {"caller", "app"}

Caller == pc["caller"]

InitLoadCallback ==
    /\ settings = StageRegs
    /\ description = <<>>
    /\ configFile = <<>>
    /\ configModified = 0
    /\ target = Map(ZeroOf(TargetType))
    /\ proc = "running"
    /\ last = [op |-> "Add", err |-> NoErr, io |-> {}, srcs |-> <<>>]
    /\ call = Variant("callback")
    /\ args \in KeepArgv
    /\ environ \in KeepEnv
    /\ \E f \in {Absent, FileOf(1, TRUE, ConcFile(<<"g">>, 1))} :
          file = [now |-> 1, at |-> [q \in {CallbackFile} |-> f]]
    /\ mu = Unlocked
    /\ targetMu = Nobody
    /\ pc = [t \in LcGoroutines |-> Idle]

\* Load: parseOptions, parseFiles and parseEnvs, each of which releases the
\* controller's lock before it returns
LcSources ==
    /\ Pos("caller", "idle")
    /\ proc = "running"
    /\ mu = Unlocked
    /\ file.now < MaxCallbackTime
    /\ \E createOK \in BOOLEAN :
          LET r == loadCallbackSources(settings, description, TargetType, args, environ,
                                       St, <<>>, createOK)
          IN /\ configFile' = r.st.cf
             /\ configModified' = r.st.cm
             /\ file' = r.st.fs
             /\ proc' = r.proc
             /\ Goto("caller", IF r.proc = "running" THEN [at |-> "to", data |-> r.data]
                               ELSE Idle)
    /\ UNCHANGED <<settings, description, target, args, environ, last, call, mu, targetMu>>

\* to: c.Lock()
LcToLock ==
    /\ Pos("caller", "to")
    /\ Lock("caller")
    /\ Goto("caller", [Caller EXCEPT !.at = "toLocked"])
    /\ UNCHANGED <<ctlVars, worldVars, proc, last, call, targetMu>>

\* to: the target's Lock(), cast, json.Marshal and json.Unmarshal onto the
\* target, and the deferred Unlock calls
LcToAssign ==
    /\ Pos("caller", "toLocked")
    /\ targetMu = Nobody
    /\ LET r == toCallback(St, TargetType, Caller.data) IN
          /\ target' = r.st.tgt
          /\ proc' = IF r.panic THEN "panicked" ELSE proc
          /\ Goto("caller", IF r.panic THEN Idle ELSE [Caller EXCEPT !.at = "Lock"])
    /\ Unlock("caller")
    /\ UNCHANGED <<settings, description, configFile, configModified>>
    /\ UNCHANGED <<worldVars, last, call, targetMu>>

\* Load: c.Lock(), and the SIGHUP listener is set up
LcLock ==
    /\ Pos("caller", "Lock")
    /\ Lock("caller")
    /\ Goto("caller", [Caller EXCEPT !.at = "Callback"])
    /\ UNCHANGED <<ctlVars, worldVars, proc, last, call, targetMu>>

\* Load: cb.Callback(). Callback locks the target, then calls c.ConfigFile()
\* or returns without a call to the controller
LcCallback ==
    /\ Pos("caller", "Callback")
    /\ targetMu = Nobody
    /\ targetMu' = "caller"
    /\ \E reenters \in BOOLEAN :
          Goto("caller", IF reenters
                         THEN [Caller EXCEPT !.at = "ConfigFile", !.data = <<"CallbackReturn">>]
                         ELSE [Caller EXCEPT !.at = "CallbackReturn"])
    /\ UNCHANGED <<ctlVars, worldVars, proc, last, call, mu>>

\* the application's goroutine calls c.ConfigFile()
AppConfigFile ==
    /\ Pos("app", "idle")
    /\ proc = "running"
    /\ Goto("app", [at |-> "ConfigFile", data |-> <<"idle">>])
    /\ UNCHANGED <<ctlVars, worldVars, proc, last, call, mu, targetMu>>

\* ConfigFile: c.RLock()
ConfigFileRLock(t) ==
    /\ Pos(t, "ConfigFile")
    /\ RLock(t)
    /\ Goto(t, [pc[t] EXCEPT !.at = "ConfigFileLocked"])
    /\ UNCHANGED <<ctlVars, worldVars, proc, last, call, targetMu>>

\* ConfigFile: return c.configFile, with the deferred c.RUnlock()
ConfigFileReturn(t) ==
    /\ Pos(t, "ConfigFileLocked")
    /\ RUnlock(t)
    /\ Goto(t, [at |-> pc[t].data[1], data |-> <<>>])
    /\ UNCHANGED <<ctlVars, worldVars, proc, last, call, targetMu>>

LcConfigFileRLock == \E t \in LcGoroutines : ConfigFileRLock(t)

LcConfigFileReturn == \E t \in LcGoroutines : ConfigFileReturn(t)

\* Callback: the target's Unlock(), and Callback returns
LcCallbackReturn ==
    /\ Pos("caller", "CallbackReturn")
    /\ targetMu' = Nobody
    /\ Goto("caller", [Caller EXCEPT !.at = "Unlock"])
    /\ UNCHANGED <<ctlVars, worldVars, proc, last, call, mu>>

\* Load: c.Unlock(), and Load returns
LcUnlock ==
    /\ Pos("caller", "Unlock")
    /\ Unlock("caller")
    /\ last' = [op |-> "Load", err |-> NoErr, io |-> {"callback"}, srcs |-> <<>>]
    /\ Goto("caller", Idle)
    /\ UNCHANGED <<ctlVars, worldVars, proc, call, targetMu>>

NextLoadCallback ==
    \/ LcSources \/ LcToLock \/ LcToAssign \/ LcLock \/ LcCallback
    \/ AppConfigFile \/ LcConfigFileRLock \/ LcConfigFileReturn
    \/ LcCallbackReturn \/ LcUnlock

\* the caller keeps running: none of its steps waits for anything but a lock
SpecLoadCallback ==
    /\ InitLoadCallback
    /\ [][NextLoadCallback]_vars
    /\ WF_vars(ConfigFileRLock("caller")) /\ WF_vars(ConfigFileReturn("caller"))
    /\ WF_vars(ConfigFileReturn("app"))
    /\ WF_vars(LcCallbackReturn) /\ WF_vars(LcUnlock)

\* C30: Load of the variant with Callback invokes Callback while the
\* controller's lock is not held, so a Callback that calls ConfigFile on the
\* controller returns and Load completes.
C30_LoadCallbackOutsideLock ==
    /\ [](Pos("caller", "Callback") => mu.w # "caller")
    /\ (Pos("caller", "ConfigFile") ~> Pos("caller", "idle"))

====
